---- MODULE Spec2Model ----
(***************************************************************************)
(* Model of the news selection pipeline of the Telegram bot:               *)
(*   news_scraper.py  NewsTracker (duplicate/history store, file backed),  *)
(*                    NewsScraper.fetch_all_feeds, get_latest_relevant_news*)
(*                    get_single_relevant_article, get_tracker_stats       *)
(*   bot.py           check_similarity_to_recent_news,                     *)
(*                    flag_article_as_duplicate, verify_news_relevance,    *)
(*                    generate_channel_news, post_to_channel               *)
(*                                                                         *)
(* Time is counted in days (variable now); two timestamps taken on the     *)
(* same day are ordered by seq, the number of timestamps already taken on  *)
(* that day, so a timestamp is the pair <<day, seq>> and the ISO strings   *)
(* of the program compare as these pairs do.                               *)
(***************************************************************************)
EXTENDS Integers, Sequences, FiniteSets, TLC

\* ------------------------------------------------------------------ bounds
MaxCycles == 2
MaxRestarts == 1
MaxWriteFailures == 1
MaxTriggers == 2
MaxFeedFailures == 1

\* ------------------------------------------------------- program constants
RETENTION_DAYS == 7
MAX_ATTEMPTS == 5
CANDIDATE_LIMIT == 5
FETCH_LIMIT == 30
RECENT_LIMIT == 5
SIMILARITY_WINDOW == 15
UNPARSEABLE_CAP == 1000
RELEVANT_MIN_SCORE == 5
THRESHOLD_TENTHS == 15
SCORE_CHECKLIST_ABSENT == 7
SCORE_AI_UNAVAILABLE == 6
SCORE_ON_ERROR == 5
SCORE_NOT_FOUND == 5

\* ----------------------------------------------------------------- inputs
(* The feed entries the model draws from.  relevance_score is kept in     *)
(* tenths (150 = 15.0).  Articles 1 and 6 are different (title, url)      *)
(* pairs whose "title|url" strings are equal.                             *)
ArticleTable ==
  << [title |-> "a|b", url |-> "c",   source |-> "coindesk", category |-> "rwa",
      relevance_score |-> 150, published |-> 5],
     [title |-> "d",   url |-> "e",   source |-> "decrypt",  category |-> "gold",
      relevance_score |-> 120, published |-> 5],
     [title |-> "f",   url |-> "g",   source |-> "coindesk", category |-> "defi",
      relevance_score |-> 90,  published |-> 3],
     [title |-> "h",   url |-> "i",   source |-> "decrypt",  category |-> "rwa",
      relevance_score |-> 90,  published |-> 4],
     [title |-> "j",   url |-> "k",   source |-> "theblock", category |-> "gold",
      relevance_score |-> 60,  published |-> 2],
     [title |-> "a",   url |-> "b|c", source |-> "theblock", category |-> "defi",
      relevance_score |-> 45,  published |-> 1],
     [title |-> "l",   url |-> "m",   source |-> "coindesk", category |-> "general",
      relevance_score |-> 10,  published |-> 6] >>

Articles == 1 .. Len(ArticleTable)
NoArticle == 0

(* The advances of the clock the model follows, in days: the next day,    *)
(* then a full retention period later, which makes records of 1, 7 and 8  *)
(* days.                                                                  *)
ClockSteps == <<1, RETENTION_DAYS>>

(* What the feeds can hold during a cycle (entries younger than 48 hours). *)
FeedChoices == { {1, 2, 3, 4, 5, 6, 7}, {6, 7} }

\* ------------------------------------------------------------------ store
(* hashlib.md5(content).hexdigest(): the digest is written as the term    *)
(* "md5(<content>)", so equal contents have equal digests and different   *)
(* contents different ones (md5 collisions are outside the model).        *)
md5(content) == "md5(" \o content \o ")"

(* NewsTracker.get_article_hash, and the same expression in               *)
(* flag_article_as_duplicate: md5 of f"{title}|{url}".                    *)
get_article_hash(a) == md5(ArticleTable[a].title \o "|" \o ArticleTable[a].url)

Hashes == { get_article_hash(a) : a \in Articles }

NoReason == <<>>
Unparseable == <<-1, 0>>
(* A 'posted_at' that is not a string (JSON null or a number). *)
NotAString == <<-2, 0>>
IsParseable(posted_at) == posted_at[1] >= 0

(* The value mark_as_posted stores; an absent 'is_duplicate' key reads as *)
(* False and an absent 'similarity_reason' as no reason.                  *)
PostedRecord(a, ts) ==
  [title |-> ArticleTable[a].title, source |-> ArticleTable[a].source,
   posted_at |-> ts, published_at |-> ArticleTable[a].published,
   url |-> ArticleTable[a].url, category |-> ArticleTable[a].category,
   is_duplicate |-> FALSE, similarity_reason |-> NoReason]

(* The value flag_article_as_duplicate stores. *)
FlaggedRecord(a, ts, reason) ==
  [title |-> ArticleTable[a].title, source |-> ArticleTable[a].source,
   posted_at |-> ts, published_at |-> ArticleTable[a].published,
   url |-> ArticleTable[a].url, category |-> ArticleTable[a].category,
   is_duplicate |-> TRUE, similarity_reason |-> reason]

(* The placeholder load_tracking_data creates for a legacy fingerprint;   *)
(* the keys it leaves out read as their .get defaults.                    *)
LegacyRecord(ts) ==
  [title |-> "Legacy Article", source |-> "unknown",
   posted_at |-> ts, published_at |-> -1,
   url |-> "", category |-> "unknown",
   is_duplicate |-> FALSE, similarity_reason |-> NoReason]

EmptyDict == << >>

DictPut(d, k, v) == [x \in (DOMAIN d) \cup {k} |-> IF x = k THEN v ELSE d[x]]

DictRemove(d, ks) == [x \in (DOMAIN d) \ ks |-> d[x]]

NoFile ==
  [exists |-> FALSE, format |-> "dict", posted_articles |-> EmptyDict,
   legacy |-> {}, last_updated |-> <<0, 0>>, total_tracked |-> 0]

(* NewsTracker.is_duplicate *)
is_duplicate(posted_articles, a) == get_article_hash(a) \in DOMAIN posted_articles

(* A cleanup that also drops the records exactly RETENTION_DAYS old: the  *)
(* variant C1 is tried against.                                           *)
cleanup_old_entries_at_horizon(posted_articles, nowDay) ==
  LET cutoff == nowDay - RETENTION_DAYS
      old_entries ==
        { h \in DOMAIN posted_articles :
            IF IsParseable(posted_articles[h].posted_at)
            THEN posted_articles[h].posted_at[1] <= cutoff
            ELSE Cardinality(DOMAIN posted_articles) > UNPARSEABLE_CAP }
  IN  DictRemove(posted_articles, old_entries)

(* NewsTracker.cleanup_old_entries at time nowDay *)
cleanup_old_entries(posted_articles, nowDay) ==
  LET cutoff == nowDay - RETENTION_DAYS
      old_entries ==
        { h \in DOMAIN posted_articles :
            IF IsParseable(posted_articles[h].posted_at)
            THEN posted_articles[h].posted_at[1] < cutoff
            ELSE Cardinality(DOMAIN posted_articles) > UNPARSEABLE_CAP }
  IN  DictRemove(posted_articles, old_entries)

(* A load that skips cleanup_old_entries: the variant C10 is tried        *)
(* against.                                                               *)
load_tracking_data_no_cleanup(f, ts, ok) ==
  IF ~ok THEN EmptyDict
  ELSE IF ~f.exists THEN EmptyDict
  ELSE IF f.format = "list"
       THEN [h \in f.legacy |-> LegacyRecord(ts)]
       ELSE f.posted_articles

(* A load that, when it fails, keeps what it had assigned before the      *)
(* failure instead of emptying the tracker: the variant C11 is tried      *)
(* against.                                                               *)
load_tracking_data_keeps_partial(f, ts, ok) ==
  IF ~f.exists THEN EmptyDict
  ELSE IF f.format = "list"
       THEN cleanup_old_entries([h \in f.legacy |-> LegacyRecord(ts)], ts[1])
       ELSE cleanup_old_entries(f.posted_articles, ts[1])

(* A load that takes posted_articles as a dict whatever the file holds,   *)
(* without the conversion of the legacy list: the variant C12 is tried    *)
(* against.                                                               *)
load_tracking_data_dict_only(f, ts, ok) ==
  IF ~ok THEN EmptyDict
  ELSE IF ~f.exists THEN EmptyDict
  ELSE IF f.format = "corrupt" THEN EmptyDict
  ELSE cleanup_old_entries(f.posted_articles, ts[1])

(* datetime.fromisoformat(metadata['posted_at']), line 160, raises         *)
(* TypeError for a value that is not a string; cleanup_old_entries catches *)
(* KeyError and ValueError only, so the TypeError leaves it.               *)
cleanup_old_entries_raises(posted_articles) ==
  \E h \in DOMAIN posted_articles : posted_articles[h].posted_at = NotAString

(* NewsTracker.load_tracking_data: ok = FALSE is an I/O error while       *)
(* reading and a "corrupt" file one json.load cannot parse; both end in   *)
(* the except branch, which empties the tracker, and so does an exception *)
(* out of cleanup_old_entries.                                            *)
load_tracking_data(f, ts, ok) ==
  IF ~ok THEN EmptyDict
  ELSE IF ~f.exists THEN EmptyDict
  ELSE IF f.format = "corrupt" THEN EmptyDict
  ELSE IF f.format = "dict" /\ cleanup_old_entries_raises(f.posted_articles) THEN EmptyDict
  ELSE IF f.format = "list"
       THEN cleanup_old_entries([h \in f.legacy |-> LegacyRecord(ts)], ts[1])
       ELSE cleanup_old_entries(f.posted_articles, ts[1])

(* How load_tracking_data, and so NewsTracker.__init__, ends: the try     *)
(* block completes, or the except branch prints the error; both return.   *)
load_tracking_data_ends(f, ok) ==
  IF ok /\ (~f.exists \/ f.format # "corrupt") THEN "returned" ELSE "returned"

(* NewsTracker.save_tracking_data: ok = FALSE is the except branch, which *)
(* prints and returns; the file keeps what it held.                       *)
save_tracking_data(f, posted_articles, ts, ok) ==
  IF ok
  THEN [exists |-> TRUE, format |-> "dict", posted_articles |-> posted_articles,
        legacy |-> {}, last_updated |-> ts,
        total_tracked |-> Cardinality(DOMAIN posted_articles)]
  ELSE f

(* How save_tracking_data, and so mark_as_posted, ends: the try block     *)
(* completes, or the except branch prints the error; both return.         *)
save_tracking_data_ends(ok) == IF ok THEN "returned" ELSE "returned"

(* NewsTracker.mark_as_posted: the new in-memory dict (the save follows). *)
mark_as_posted(posted_articles, a, ts) ==
  DictPut(posted_articles, get_article_hash(a), PostedRecord(a, ts))

(* flag_article_as_duplicate: reads the file, adds the flagged record and *)
(* writes the file back; the tracker in memory is not touched.  A legacy  *)
(* (list) file makes the item assignment raise, a corrupt file makes      *)
(* json.load raise, ok = FALSE is a failing write: all end in the except  *)
(* branch, which prints and returns.                                      *)
flag_article_as_duplicate(f, a, reason, ts, ok) ==
  LET tracker_data == IF f.exists THEN f ELSE NoFile
      posted == DictPut(tracker_data.posted_articles, get_article_hash(a),
                        FlaggedRecord(a, ts, reason))
  IN  IF ~ok \/ (f.exists /\ f.format # "dict")
      THEN f
      ELSE [exists |-> TRUE, format |-> "dict", posted_articles |-> posted,
            legacy |-> {}, last_updated |-> ts,
            total_tracked |-> Cardinality(DOMAIN posted)]

(* How flag_article_as_duplicate ends: as save_tracking_data does. *)
flag_article_as_duplicate_ends(ok) == IF ok THEN "returned" ELSE "returned"

\* ---------------------------------------------------------------- ranking
Min2(x, y) == IF x < y THEN x ELSE y

(* Timestamps compare as their ISO strings do. *)
TsLess(s, t) == s[1] < t[1] \/ (s[1] = t[1] /\ s[2] < t[2])

(* A list left in feed order, without the sort: the variant C19 is tried  *)
(* against.                                                               *)
RanksBefore_feed_order(x, y) == x < y

(* Sort key of fetch_all_feeds, reverse=True: (relevance_score, published) *)
(* descending; list.sort is stable, entries with equal keys keep the feed *)
(* order, which is the order of the article numbers here.                 *)
RanksBefore(x, y) ==
  LET ax == ArticleTable[x]
      ay == ArticleTable[y]
  IN  \/ ax.relevance_score > ay.relevance_score
      \/ ax.relevance_score = ay.relevance_score /\ ax.published > ay.published
      \/ ax.relevance_score = ay.relevance_score /\ ax.published = ay.published /\ x < y

SortArticles(S) ==
  LET sorted[T \in SUBSET S] ==
        IF T = {} THEN << >>
        ELSE LET first == CHOOSE x \in T : \A y \in T \ {x} : RanksBefore(x, y)
             IN  <<first>> \o sorted[T \ {first}]
  IN  sorted[S]

Take(seq, n) == SubSeq(seq, 1, Min2(n, Len(seq)))

(* The feed names of RSS_FEEDS that carry the modelled entries. *)
Sources == { ArticleTable[a].source : a \in Articles }

(* A gather in which one failing source makes the whole batch come back   *)
(* empty: the variant C14 is tried against.                               *)
gather_feeds_all_or_nothing(entries, failing) ==
  IF failing = {} THEN entries ELSE {}

(* fetch_rss_feed for every source and asyncio.gather(return_exceptions=  *)
(* True), fetch_all_feeds lines 407-428: a source of the set failing      *)
(* returns [] from its except branch (or its exception is skipped at line *)
(* 423); the others return their entries.                                 *)
gather_feeds(entries, failing) ==
  { a \in entries : ArticleTable[a].source \notin failing }

(* NewsScraper.fetch_all_feeds: keep the entries scoring at least 1.5     *)
(* that the tracker does not know, sort them, return the top 30.          *)
fetch_all_feeds(entries, posted_articles) ==
  Take(SortArticles({ a \in entries :
                        /\ ArticleTable[a].relevance_score >= THRESHOLD_TENTHS
                        /\ ~is_duplicate(posted_articles, a) }),
       FETCH_LIMIT)

(* get_latest_relevant_news(limit): the top of the fetched list. *)
get_latest_relevant_news(entries, posted_articles, limit) ==
  Take(fetch_all_feeds(entries, posted_articles), limit)

(* A loop that would rely on the filter of fetch_all_feeds and take the   *)
(* head of the list without asking the tracker again.                     *)
FirstNonDuplicate_head(articles, posted_articles) ==
  IF articles = << >> THEN NoArticle ELSE articles[1]

(* The loop of get_single_relevant_article: the first article of the list *)
(* the tracker does not know, None when there is none.                    *)
FirstNonDuplicate(articles, posted_articles) ==
  LET idx == { i \in 1 .. Len(articles) : ~is_duplicate(posted_articles, articles[i]) }
  IN  IF idx = {} THEN NoArticle
      ELSE articles[CHOOSE i \in idx : \A j \in idx : i <= j]

(* NewsTracker.get_recent_articles(limit): the records with their hash,   *)
(* most recent posted_at first, cut to limit.                             *)
SortRecent(posted_articles, hs) ==
  LET sorted[T \in SUBSET hs] ==
        IF T = {} THEN << >>
        ELSE LET newest == CHOOSE h \in T : \A g \in T :
                             ~TsLess(posted_articles[h].posted_at, posted_articles[g].posted_at)
             IN  <<[hash |-> newest, meta |-> posted_articles[newest]]>>
                   \o sorted[T \ {newest}]
  IN  sorted[hs]

get_recent_articles(posted_articles, limit) ==
  Take(SortRecent(posted_articles, DOMAIN posted_articles), limit)

(* A count that stops at the first record: the variant C26 is tried       *)
(* against.                                                               *)
CountBy_first(posted_articles, field, value) ==
  IF \E h \in DOMAIN posted_articles : posted_articles[h][field] = value THEN 1 ELSE 0

CountBy(posted_articles, field, value) ==
  Cardinality({ h \in DOMAIN posted_articles : posted_articles[h][field] = value })

(* get_tracker_stats: computed from the tracker in memory. *)
get_tracker_stats(posted_articles) ==
  [total_tracked |-> Cardinality(DOMAIN posted_articles),
   recent_articles |-> get_recent_articles(posted_articles, RECENT_LIMIT),
   sources |-> [s \in { posted_articles[h].source : h \in DOMAIN posted_articles }
                  |-> CountBy(posted_articles, "source", s)],
   categories |-> [c \in { posted_articles[h].category : h \in DOMAIN posted_articles }
                  |-> CountBy(posted_articles, "category", c)]]

(* check_similarity_to_recent_news, lines 420-438: the titles handed to   *)
(* the collaborator, those of recent_articles[:15] that have a title and  *)
(* a posted_at and are not flagged duplicate.                             *)
recent_titles(posted_articles) ==
  LET recent == Take(get_tracker_stats(posted_articles).recent_articles, SIMILARITY_WINDOW)
  IN  SelectSeq(recent, LAMBDA r : r.meta.title # "" /\ ~r.meta.is_duplicate)

\* ----------------------------------------------------------- collaborator
(* A response of get_ai_response is None (any exception inside it ends in *)
(* "return None"), or a text, held as its sequence of tokens.             *)
NoResponse == <<"<None>">>

SimilarityResponses ==
  { NoResponse, << >>,
    <<"SIMILAR", ":", "same story">>, <<"UNIQUE", ":", "different">>,
    <<"similar", ":", "same story">>, <<"no verdict">> }

RelevanceResponses ==
  { NoResponse, << >>,
    <<"SCORE", ":", "4", "|", "REASON", ":", "weak">>,
    <<"SCORE", ":", "5", "|", "REASON", ":", "medium">>,
    <<"SCORE", ":", "9", "|", "REASON", ":", "strong">>,
    <<"REASON", ":", "no score given">> }

(* int() of a token of decimal digits *)
Digits == [t \in {"0", "1", "2", "3", "4", "5", "6", "7", "8", "9", "10"} |->
             CASE t = "0" -> 0 [] t = "1" -> 1 [] t = "2" -> 2 [] t = "3" -> 3
               [] t = "4" -> 4 [] t = "5" -> 5 [] t = "6" -> 6 [] t = "7" -> 7
               [] t = "8" -> 8 [] t = "9" -> 9 [] t = "10" -> 10]

ChecklistStates == {"absent", "malformed", "loaded"}

Upper(tok) == IF tok = "similar" THEN "SIMILAR" ELSE IF tok = "unique" THEN "UNIQUE" ELSE tok

(* "<word>:" in response.upper() *)
ContainsUpper(response, word) ==
  \E i \in 1 .. Len(response) - 1 : Upper(response[i]) = word /\ response[i + 1] = ":"

(* text after the first ":" *)
AfterFirstColon(response) ==
  LET idx == { i \in 1 .. Len(response) : response[i] = ":" }
      c == CHOOSE i \in idx : \A j \in idx : i <= j
  IN  IF idx = {} THEN << >> ELSE SubSeq(response, c + 1, Len(response))

Truthy(response) == response # NoResponse /\ response # << >>

(* A similarity check that calls the collaborator and ignores its        *)
(* answer: the variant C4 is tried against.                               *)
check_similarity_to_recent_news_deaf(posted_articles, response) ==
  [called |-> TRUE, is_similar |-> FALSE, reason |-> <<"Article appears unique">>]

(* check_similarity_to_recent_news: [called, is_similar, reason].  With   *)
(* no recent article to compare against it returns before the call.  A    *)
(* None response reaches '":" in response', which raises, and the except  *)
(* branch returns not similar.                                            *)
check_similarity_to_recent_news(posted_articles, response) ==
  IF get_tracker_stats(posted_articles).recent_articles = << >>
  THEN [called |-> FALSE, is_similar |-> FALSE, reason |-> <<"No recent articles">>]
  ELSE IF recent_titles(posted_articles) = << >>
  THEN [called |-> FALSE, is_similar |-> FALSE, reason |-> <<"No unique recent articles">>]
  ELSE IF Truthy(response) /\ ContainsUpper(response, "SIMILAR")
  THEN [called |-> TRUE, is_similar |-> TRUE, reason |-> AfterFirstColon(response)]
  ELSE IF response = NoResponse
  THEN [called |-> TRUE, is_similar |-> FALSE, reason |-> <<"Error in similarity check">>]
  ELSE [called |-> TRUE, is_similar |-> FALSE,
        reason |-> IF ContainsUpper(response, "UNIQUE")
                   THEN AfterFirstColon(response) ELSE <<"Article appears unique">>]

(* re.search(r'SCORE:\s*(\d+)', response): the positions that match *)
ScoreMatch(response) ==
  { i \in 1 .. Len(response) - 2 :
      response[i] = "SCORE" /\ response[i + 1] = ":" /\ response[i + 2] \in DOMAIN Digits }

(* re.search(r'REASON:\s*(.+)', response): the text of the first match *)
ReasonMatch(response) ==
  LET m == { i \in 1 .. Len(response) - 2 : response[i] = "REASON" /\ response[i + 1] = ":" }
  IN  IF m = {} THEN << >>
      ELSE SubSeq(response, (CHOOSE i \in m : \A j \in m : i <= j) + 2, Len(response))

(* A relevance check that passes only scores above 5: the variant C23 is  *)
(* tried against.                                                         *)
verify_news_relevance_above_min(checklist, response) ==
  IF checklist = "absent"
  THEN [called |-> FALSE, is_relevant |-> TRUE, score |-> SCORE_CHECKLIST_ABSENT,
        reason |-> <<"Checklist unavailable - using default approval">>]
  ELSE IF checklist = "malformed"
  THEN [called |-> FALSE, is_relevant |-> TRUE, score |-> SCORE_ON_ERROR,
        reason |-> <<"Error in evaluation">>]
  ELSE IF Truthy(response)
  THEN LET m == ScoreMatch(response)
           score == IF m = {} THEN SCORE_NOT_FOUND
                    ELSE Digits[response[(CHOOSE i \in m : \A j \in m : i <= j) + 2]]
       IN  [called |-> TRUE, is_relevant |-> score > RELEVANT_MIN_SCORE,
            score |-> score,
            reason |-> IF ReasonMatch(response) # << >>
                       THEN ReasonMatch(response) ELSE <<"AI evaluation completed">>]
  ELSE [called |-> TRUE, is_relevant |-> TRUE, score |-> SCORE_AI_UNAVAILABLE,
        reason |-> <<"AI evaluation unavailable - approved by default">>]

(* A relevance check that rejects when the collaborator gives no          *)
(* response: the variant C7 is tried against.                             *)
verify_news_relevance_strict(checklist, response) ==
  IF checklist = "absent"
  THEN [called |-> FALSE, is_relevant |-> TRUE, score |-> SCORE_CHECKLIST_ABSENT,
        reason |-> <<"Checklist unavailable - using default approval">>]
  ELSE IF checklist = "malformed"
  THEN [called |-> FALSE, is_relevant |-> TRUE, score |-> SCORE_ON_ERROR,
        reason |-> <<"Error in evaluation">>]
  ELSE IF Truthy(response)
  THEN LET m == ScoreMatch(response)
           score == IF m = {} THEN SCORE_NOT_FOUND
                    ELSE Digits[response[(CHOOSE i \in m : \A j \in m : i <= j) + 2]]
       IN  [called |-> TRUE, is_relevant |-> score >= RELEVANT_MIN_SCORE,
            score |-> score,
            reason |-> IF ReasonMatch(response) # << >>
                       THEN ReasonMatch(response) ELSE <<"AI evaluation completed">>]
  ELSE [called |-> TRUE, is_relevant |-> FALSE, score |-> 0,
        reason |-> <<"AI evaluation unavailable">>]

(* verify_news_relevance: [called, is_relevant, score, reason].  A        *)
(* checklist without the keys it reads makes line 522 raise, which ends   *)
(* in the except branch.                                                  *)
verify_news_relevance(checklist, response) ==
  IF checklist = "absent"
  THEN [called |-> FALSE, is_relevant |-> TRUE, score |-> SCORE_CHECKLIST_ABSENT,
        reason |-> <<"Checklist unavailable - using default approval">>]
  ELSE IF checklist = "malformed"
  THEN [called |-> FALSE, is_relevant |-> TRUE, score |-> SCORE_ON_ERROR,
        reason |-> <<"Error in evaluation">>]
  ELSE IF Truthy(response)
  THEN LET m == ScoreMatch(response)
           score == IF m = {} THEN SCORE_NOT_FOUND
                    ELSE Digits[response[(CHOOSE i \in m : \A j \in m : i <= j) + 2]]
       IN  [called |-> TRUE, is_relevant |-> score >= RELEVANT_MIN_SCORE,
            score |-> score,
            reason |-> IF ReasonMatch(response) # << >>
                       THEN ReasonMatch(response) ELSE <<"AI evaluation completed">>]
  ELSE [called |-> TRUE, is_relevant |-> TRUE, score |-> SCORE_AI_UNAVAILABLE,
        reason |-> <<"AI evaluation unavailable - approved by default">>]

\* ---------------------------------------------------------------- scorer
(* The strings the scorer reads are sequences of characters, so that      *)
(* Python's "keyword in text" is the substring test it is.                *)
UpperCase == <<"A", "B", "C", "D", "E", "F", "G", "H", "I", "J", "K", "L", "M",
               "N", "O", "P", "Q", "R", "S", "T", "U", "V", "W", "X", "Y", "Z">>
LowerCase == <<"a", "b", "c", "d", "e", "f", "g", "h", "i", "j", "k", "l", "m",
               "n", "o", "p", "q", "r", "s", "t", "u", "v", "w", "x", "y", "z">>

(* str.lower() *)
lower(str) ==
  [i \in 1 .. Len(str) |->
     IF \E k \in 1 .. Len(UpperCase) : UpperCase[k] = str[i]
     THEN LowerCase[CHOOSE k \in 1 .. Len(UpperCase) : UpperCase[k] = str[i]]
     ELSE str[i]]

(* sub in str *)
IsIn(sub, str) ==
  \E i \in 0 .. Len(str) - Len(sub) : SubSeq(str, i + 1, i + Len(sub)) = sub

(* Scores are kept in tenths: 3.0, 1.0 and the cap 15.0. *)
TITLE_WEIGHT_TENTHS == 30
SUMMARY_WEIGHT_TENTHS == 10
SCORE_CAP_TENTHS == 150

(* RELEVANCE_KEYWORDS, in the order of the dict. *)
RELEVANCE_KEYWORDS ==
  <<
    [category |-> "rwa", keywords |-> <<
      <<"r", "e", "a", "l", " ", "w", "o", "r", "l", "d", " ", "a", "s", "s", "e", "t">>,
      <<"r", "w", "a">>,
      <<"t", "o", "k", "e", "n", "i", "z", "a", "t", "i", "o", "n">>,
      <<"t", "o", "k", "e", "n", "i", "z", "e", "d">>,
      <<"a", "s", "s", "e", "t", " ", "b", "a", "c", "k", "e", "d">>,
      <<"r", "e", "a", "l", " ", "e", "s", "t", "a", "t", "e", " ", "t", "o", "k", "e", "n">>,
      <<"c", "o", "m", "m", "o", "d", "i", "t", "y", " ", "t", "o", "k", "e", "n">>,
      <<"s", "e", "c", "u", "r", "i", "t", "y", " ", "t", "o", "k", "e", "n">>,
      <<"s", "t", "o">>,
      <<"a", "s", "s", "e", "t", " ", "d", "i", "g", "i", "t", "i", "z", "a", "t", "i", "o", "n">>,
      <<"b", "l", "o", "c", "k", "c", "h", "a", "i", "n", " ", "a", "s", "s", "e", "t">>,
      <<"d", "e", "f", "i", " ", "a", "s", "s", "e", "t">>,
      <<"t", "r", "a", "d", "i", "t", "i", "o", "n", "a", "l", " ", "a", "s", "s", "e", "t">>,
      <<"a", "s", "s", "e", "t", " ", "t", "o", "k", "e", "n", "i", "z", "a", "t", "i", "o", "n">>,
      <<"d", "i", "g", "i", "t", "a", "l", " ", "a", "s", "s", "e", "t">>,
      <<"t", "o", "k", "e", "n", " ", "a", "s", "s", "e", "t">>,
      <<"b", "a", "c", "k", "e", "d", " ", "t", "o", "k", "e", "n">>,
      <<"p", "h", "y", "s", "i", "c", "a", "l", " ", "a", "s", "s", "e", "t">>,
      <<"t", "a", "n", "g", "i", "b", "l", "e", " ", "a", "s", "s", "e", "t">>,
      <<"t", "o", "k", "e", "n", "i", "z", "e">>,
      <<"f", "r", "a", "c", "t", "i", "o", "n", "a", "l", "i", "z", "e", "d">> >>],
    [category |-> "gold", keywords |-> <<
      <<"g", "o", "l", "d">>,
      <<"p", "r", "e", "c", "i", "o", "u", "s", " ", "m", "e", "t", "a", "l">>,
      <<"b", "u", "l", "l", "i", "o", "n">>,
      <<"g", "o", "l", "d", " ", "p", "r", "i", "c", "e">>,
      <<"g", "o", "l", "d", " ", "m", "a", "r", "k", "e", "t">>,
      <<"g", "o", "l", "d", " ", "e", "t", "f">>,
      <<"g", "o", "l", "d", " ", "m", "i", "n", "i", "n", "g">>,
      <<"g", "o", "l", "d", " ", "r", "e", "s", "e", "r", "v", "e">>,
      <<"c", "e", "n", "t", "r", "a", "l", " ", "b", "a", "n", "k", " ", "g", "o", "l", "d">>,
      <<"g", "o", "l", "d", " ", "f", "u", "t", "u", "r", "e", "s">>,
      <<"s", "p", "o", "t", " ", "g", "o", "l", "d">>,
      <<"g", "o", "l", "d", " ", "b", "a", "c", "k", "e", "d">>,
      <<"g", "o", "l", "d", " ", "s", "t", "a", "n", "d", "a", "r", "d">>,
      <<"g", "o", "l", "d", " ", "c", "o", "i", "n">>,
      <<"g", "o", "l", "d", " ", "b", "a", "r">>,
      <<"g", "o", "l", "d", " ", "i", "n", "v", "e", "s", "t", "m", "e", "n", "t">>,
      <<"g", "o", "l", "d", " ", "r", "a", "l", "l", "y">>,
      <<"g", "o", "l", "d", " ", "d", "e", "m", "a", "n", "d">>,
      <<"g", "o", "l", "d", " ", "s", "u", "p", "p", "l", "y">>,
      <<"x", "a", "u">>,
      <<"t", "r", "o", "y", " ", "o", "u", "n", "c", "e">> >>],
    [category |-> "partnerships", keywords |-> <<
      <<"p", "a", "r", "t", "n", "e", "r", "s", "h", "i", "p">>,
      <<"c", "o", "l", "l", "a", "b", "o", "r", "a", "t", "i", "o", "n">>,
      <<"i", "n", "t", "e", "g", "r", "a", "t", "i", "o", "n">>,
      <<"a", "n", "n", "o", "u", "n", "c", "e", "s">>,
      <<"t", "e", "a", "m", "s", " ", "u", "p">>,
      <<"j", "o", "i", "n", "t", " ", "v", "e", "n", "t", "u", "r", "e">>,
      <<"s", "t", "r", "a", "t", "e", "g", "i", "c", " ", "a", "l", "l", "i", "a", "n", "c", "e">>,
      <<"c", "o", "o", "p", "e", "r", "a", "t", "i", "o", "n">>,
      <<"a", "g", "r", "e", "e", "m", "e", "n", "t">>,
      <<"d", "e", "a", "l">>,
      <<"m", "e", "r", "g", "e", "r">>,
      <<"a", "c", "q", "u", "i", "s", "i", "t", "i", "o", "n">>,
      <<"i", "n", "v", "e", "s", "t", "m", "e", "n", "t">>,
      <<"l", "a", "u", "n", "c", "h", "e", "s", " ", "w", "i", "t", "h">>,
      <<"p", "a", "r", "t", "n", "e", "r", "s", " ", "w", "i", "t", "h">>,
      <<"a", "l", "l", "i", "a", "n", "c", "e">>,
      <<"w", "o", "r", "k", "i", "n", "g", " ", "t", "o", "g", "e", "t", "h", "e", "r">>,
      <<"s", "t", "r", "a", "t", "e", "g", "i", "c", " ", "p", "a", "r", "t", "n", "e", "r", "s", "h", "i", "p">>,
      <<"b", "u", "s", "i", "n", "e", "s", "s", " ", "p", "a", "r", "t", "n", "e", "r", "s", "h", "i", "p">>,
      <<"t", "e", "c", "h", "n", "o", "l", "o", "g", "y", " ", "p", "a", "r", "t", "n", "e", "r", "s", "h", "i", "p">> >>],
    [category |-> "institutional", keywords |-> <<
      <<"i", "n", "s", "t", "i", "t", "u", "t", "i", "o", "n", "a", "l">>,
      <<"b", "a", "n", "k">>,
      <<"f", "i", "n", "a", "n", "c", "i", "a", "l", " ", "i", "n", "s", "t", "i", "t", "u", "t", "i", "o", "n">>,
      <<"c", "o", "r", "p", "o", "r", "a", "t", "e">>,
      <<"e", "n", "t", "e", "r", "p", "r", "i", "s", "e">>,
      <<"b", "l", "a", "c", "k", "r", "o", "c", "k">>,
      <<"f", "i", "d", "e", "l", "i", "t", "y">>,
      <<"j", "p", "m", "o", "r", "g", "a", "n">>,
      <<"g", "o", "l", "d", "m", "a", "n", " ", "s", "a", "c", "h", "s">>,
      <<"m", "o", "r", "g", "a", "n", " ", "s", "t", "a", "n", "l", "e", "y">>,
      <<"w", "e", "l", "l", "s", " ", "f", "a", "r", "g", "o">>,
      <<"v", "i", "s", "a">>,
      <<"m", "a", "s", "t", "e", "r", "c", "a", "r", "d">>,
      <<"p", "a", "y", "p", "a", "l">>,
      <<"d", "e", "u", "t", "s", "c", "h", "e", " ", "b", "a", "n", "k">>,
      <<"u", "b", "s">>,
      <<"c", "r", "e", "d", "i", "t", " ", "s", "u", "i", "s", "s", "e">>,
      <<"h", "s", "b", "c">>,
      <<"c", "i", "t", "i", "g", "r", "o", "u", "p">>,
      <<"i", "n", "s", "t", "i", "t", "u", "t", "i", "o", "n", "a", "l", " ", "a", "d", "o", "p", "t", "i", "o", "n">>,
      <<"i", "n", "s", "t", "i", "t", "u", "t", "i", "o", "n", "a", "l", " ", "i", "n", "v", "e", "s", "t", "o", "r">>,
      <<"w", "a", "l", "l", " ", "s", "t", "r", "e", "e", "t">> >>],
    [category |-> "defi", keywords |-> <<
      <<"d", "e", "f", "i">>,
      <<"d", "e", "c", "e", "n", "t", "r", "a", "l", "i", "z", "e", "d", " ", "f", "i", "n", "a", "n", "c", "e">>,
      <<"y", "i", "e", "l", "d", " ", "f", "a", "r", "m", "i", "n", "g">>,
      <<"l", "i", "q", "u", "i", "d", "i", "t", "y", " ", "p", "o", "o", "l">>,
      <<"d", "e", "x">>,
      <<"d", "e", "c", "e", "n", "t", "r", "a", "l", "i", "z", "e", "d", " ", "e", "x", "c", "h", "a", "n", "g", "e">>,
      <<"l", "e", "n", "d", "i", "n", "g", " ", "p", "r", "o", "t", "o", "c", "o", "l">>,
      <<"b", "o", "r", "r", "o", "w", "i", "n", "g">>,
      <<"s", "t", "a", "k", "i", "n", "g">>,
      <<"g", "o", "v", "e", "r", "n", "a", "n", "c", "e", " ", "t", "o", "k", "e", "n">>,
      <<"d", "a", "o">>,
      <<"s", "m", "a", "r", "t", " ", "c", "o", "n", "t", "r", "a", "c", "t">>,
      <<"a", "u", "t", "o", "m", "a", "t", "e", "d", " ", "m", "a", "r", "k", "e", "t", " ", "m", "a", "k", "e", "r">>,
      <<"a", "m", "m">>,
      <<"t", "v", "l">>,
      <<"t", "o", "t", "a", "l", " ", "v", "a", "l", "u", "e", " ", "l", "o", "c", "k", "e", "d">> >>],
    [category |-> "regulation", keywords |-> <<
      <<"r", "e", "g", "u", "l", "a", "t", "i", "o", "n">>,
      <<"r", "e", "g", "u", "l", "a", "t", "o", "r", "y">>,
      <<"s", "e", "c">>,
      <<"c", "f", "t", "c">>,
      <<"c", "o", "m", "p", "l", "i", "a", "n", "c", "e">>,
      <<"l", "i", "c", "e", "n", "s", "e">>,
      <<"a", "p", "p", "r", "o", "v", "a", "l">>,
      <<"f", "r", "a", "m", "e", "w", "o", "r", "k">>,
      <<"g", "u", "i", "d", "a", "n", "c", "e">>,
      <<"l", "a", "w">>,
      <<"l", "e", "g", "a", "l">>,
      <<"p", "o", "l", "i", "c", "y">>,
      <<"g", "o", "v", "e", "r", "n", "m", "e", "n", "t">>,
      <<"f", "e", "d", "e", "r", "a", "l">>,
      <<"s", "t", "a", "t", "e">>,
      <<"i", "n", "t", "e", "r", "n", "a", "t", "i", "o", "n", "a", "l">>,
      <<"g", "l", "o", "b", "a", "l", " ", "r", "e", "g", "u", "l", "a", "t", "i", "o", "n">> >>] >>

price_prediction_keywords ==
  <<
    <<"p", "r", "i", "c", "e", " ", "p", "r", "e", "d", "i", "c", "t", "i", "o", "n">>,
    <<"p", "r", "i", "c", "e", " ", "f", "o", "r", "e", "c", "a", "s", "t">>,
    <<"p", "r", "i", "c", "e", " ", "t", "a", "r", "g", "e", "t">>,
    <<"p", "r", "i", "c", "e", " ", "a", "n", "a", "l", "y", "s", "i", "s">>,
    <<"t", "e", "c", "h", "n", "i", "c", "a", "l", " ", "a", "n", "a", "l", "y", "s", "i", "s">>,
    <<"p", "r", "i", "c", "e", " ", "o", "u", "t", "l", "o", "o", "k">>,
    <<"w", "i", "l", "l", " ", "r", "e", "a", "c", "h">>,
    <<"c", "o", "u", "l", "d", " ", "h", "i", "t">>,
    <<"p", "r", "i", "c", "e", " ", "c", "o", "u", "l", "d">>,
    <<"p", "r", "i", "c", "e", " ", "m", "a", "y">>,
    <<"p", "r", "i", "c", "e", " ", "e", "s", "t", "i", "m", "a", "t", "e">>,
    <<"p", "r", "i", "c", "e", " ", "p", "r", "o", "j", "e", "c", "t", "i", "o", "n">>,
    <<"p", "r", "i", "c", "e", " ", "e", "x", "p", "e", "c", "t", "a", "t", "i", "o", "n", "s">>,
    <<"b", "u", "l", "l", "i", "s", "h", " ", "t", "a", "r", "g", "e", "t">>,
    <<"b", "e", "a", "r", "i", "s", "h", " ", "t", "a", "r", "g", "e", "t">>,
    <<"r", "e", "s", "i", "s", "t", "a", "n", "c", "e", " ", "l", "e", "v", "e", "l">>,
    <<"s", "u", "p", "p", "o", "r", "t", " ", "l", "e", "v", "e", "l">>,
    <<"f", "i", "b", "o", "n", "a", "c", "c", "i">>,
    <<"m", "o", "v", "i", "n", "g", " ", "a", "v", "e", "r", "a", "g", "e">>,
    <<"r", "s", "i">>,
    <<"c", "h", "a", "r", "t", " ", "a", "n", "a", "l", "y", "s", "i", "s">>,
    <<"t", "r", "a", "d", "i", "n", "g", " ", "s", "i", "g", "n", "a", "l", "s">>,
    <<"b", "u", "y", " ", "s", "i", "g", "n", "a", "l">>,
    <<"s", "e", "l", "l", " ", "s", "i", "g", "n", "a", "l">> >>

(* What the feeds can carry: titles and summaries of entries.  Among them *)
(* are a keyword inside a longer word ("sto" in "Stocks", "rsi" in        *)
(* "Diversified"), a keyword that only the joined text holds ("gold       *)
(* price" across "Spot Gold" and "price rises"), upper case, entries of   *)
(* one and of several categories, and entries above the cap.              *)
(* entry.title *)
Titles ==
  {
    <<"G", "o", "l", "d", " ", "P", "r", "i", "c", "e", " ", "P", "r", "e", "d", "i", "c", "t", "i", "o", "n">>,
    <<"S", "p", "o", "t", " ", "G", "o", "l", "d", " ", "P", "r", "i", "c", "e", ",", " ", "G", "o", "l", "d", " ", "E", "T", "F", ",", " ", "G", "o", "l", "d", " ", "B", "a", "r", " ", "a", "n", "d", " ", "B", "u", "l", "l", "i", "o", "n">>,
    <<"C", "e", "n", "t", "r", "a", "l", " ", "B", "a", "n", "k", " ", "G", "o", "l", "d", " ", "R", "e", "s", "e", "r", "v", "e">>,
    <<"B", "a", "n", "k", " ", "A", "d", "o", "p", "t", "s", " ", "T", "o", "k", "e", "n", "i", "z", "e", "d", " ", "G", "o", "l", "d">>,
    <<"B", "u", "l", "l", "i", "o", "n">>,
    <<"W", "e", "a", "t", "h", "e", "r", " ", "R", "e", "p", "o", "r", "t">>,
    <<"D", "i", "v", "e", "r", "s", "i", "f", "i", "e", "d", " ", "P", "o", "r", "t", "f", "o", "l", "i", "o">>,
    <<"S", "t", "o", "c", "k", "s", " ", "R", "i", "s", "e">>,
    <<"S", "p", "o", "t", " ", "G", "o", "l", "d">>,
    <<"M", "a", "r", "k", "e", "t", "s", " ", "W", "i", "l", "l", " ", "R", "e", "a", "c", "h", " ", "N", "e", "w", " ", "B", "u", "l", "l", "i", "o", "n", " ", "H", "i", "g", "h", "s">> }

(* entry.summary *)
Summaries ==
  {
    <<>>,
    <<"g", "o", "l", "d">>,
    <<"p", "r", "i", "c", "e", " ", "p", "r", "e", "d", "i", "c", "t", "i", "o", "n", " ", "i", "n", "s", "i", "d", "e">>,
    <<"a", " ", "b", "a", "n", "k", " ", "d", "e", "a", "l">>,
    <<"b", "u", "l", "l", "i", "o", "n">>,
    <<"p", "r", "i", "c", "e", " ", "r", "i", "s", "e", "s">>,
    <<"S", "E", "C", " ", "l", "a", "w">>,
    <<"t", "o", "k", "e", "n", "i", "z", "e", "d">> }

(* A dict without the key 'category'. *)
NoCategory == "unset"

(* text = f"{article['title']} {article['summary']}".lower() *)
article_text(entry) == lower(entry.title \o <<" ">> \o entry.summary)

(* A scorer without the price-speculation filter: the variant C15 is      *)
(* tried against.                                                         *)
is_price_prediction_never(text) == FALSE

is_price_prediction(text) ==
  \E k \in 1 .. Len(price_prediction_keywords) : IsIn(price_prediction_keywords[k], text)

(* A scorer that weighs every keyword alike: the variant C17 is tried     *)
(* against.                                                               *)
keyword_weight_flat(keyword, title) == SUMMARY_WEIGHT_TENTHS

(* A scorer whose summary weight is 1.5: with it a single keyword found   *)
(* in the summary scores exactly the threshold.                           *)
keyword_weight_threshold(keyword, title) ==
  IF IsIn(lower(keyword), lower(title)) THEN TITLE_WEIGHT_TENTHS ELSE THRESHOLD_TENTHS

(* weight = 3.0 if keyword.lower() in article['title'].lower() else 1.0 *)
keyword_weight(keyword, title) ==
  IF IsIn(lower(keyword), lower(title)) THEN TITLE_WEIGHT_TENTHS ELSE SUMMARY_WEIGHT_TENTHS

(* The keywords of a category the text holds, by their place in the list. *)
matched_keywords(keywords, text) ==
  { k \in 1 .. Len(keywords) : IsIn(lower(keywords[k]), text) }

RECURSIVE SumOver(_, _)
SumOver(f, S) ==
  IF S = {} THEN 0
  ELSE LET x == CHOOSE y \in S : TRUE IN f[x] + SumOver(f, S \ {x})

(* The weight each matched keyword adds, by <<category, keyword>>. *)
keyword_weights(entry) ==
  LET text == article_text(entry)
      hits == UNION { {c} \X matched_keywords(RELEVANCE_KEYWORDS[c].keywords, text) :
                      c \in 1 .. Len(RELEVANCE_KEYWORDS) }
  IN  [p \in hits |-> keyword_weight(RELEVANCE_KEYWORDS[p[1]].keywords[p[2]], entry.title)]

(* category_matches: category -> category_score, for categories with a match *)
category_matches(entry) ==
  LET w == keyword_weights(entry)
  IN  [c \in { p[1] : p \in DOMAIN w } |-> SumOver(w, { p \in DOMAIN w : p[1] = c })]

(* A scorer without the bonus for several categories: the variant C16 is  *)
(* tried against.                                                         *)
multi_category_bonus_none(total_score, categories) == total_score

(* if len(category_matches) > 1: total_score *= 1.5 *)
multi_category_bonus(total_score, categories) ==
  IF categories > 1 THEN (total_score * 3) \div 2 ELSE total_score

(* max(category_matches.keys(), key=...): the first category of the dict  *)
(* with the largest score.                                                *)
primary_category(cm) ==
  CHOOSE c \in DOMAIN cm :
    \A d \in DOMAIN cm : cm[d] < cm[c] \/ (cm[d] = cm[c] /\ c <= d)

(* calculate_relevance_score: [score, article], the article being the     *)
(* dict it was given, with 'category' set when a category matched.        *)
calculate_relevance_score(entry) ==
  IF is_price_prediction(article_text(entry))
  THEN [score |-> 0, article |-> entry, weights |-> << >>]
  ELSE LET cm == category_matches(entry)
           total_score == multi_category_bonus(SumOver(cm, DOMAIN cm), Cardinality(DOMAIN cm))
       IN  [score |-> Min2(total_score, SCORE_CAP_TENTHS),
            article |-> IF DOMAIN cm = {} THEN entry
                        ELSE [entry EXCEPT
                                !.category = RELEVANCE_KEYWORDS[primary_category(cm)].category],
            weights |-> keyword_weights(entry)]

\* ------------------------------------------------------------------ state
VARIABLES
  now,              \* the clock, in days
  ticks,            \* times the clock was advanced
  seq,              \* timestamps already taken on day now
  feed,             \* the entries the feeds hold during the cycle
  posted_articles,  \* scraper.tracker.posted_articles, the tracker in memory
  file,             \* news_tracker.json
  pc,               \* position of the cycle: idle, attempt, similarity, relevance, analysis, done
  attempt,          \* loop variable of generate_channel_news
  article,          \* the candidate of the current attempt
  result,           \* the article of the returned message, NoArticle for None
  check,            \* outcome of the latest collaborator check of the cycle
  cycles,           \* cycles started
  restarts,         \* process restarts
  stats,            \* history: calls made in the cycle
  ranked0,          \* history: the candidate list of the first fetch of the cycle
  verdicts,         \* history: how each candidate of the cycle ended
  marked,           \* history: articles passed to mark_as_posted in the cycle
  returned,         \* history: fingerprint -> day get_single_relevant_article last returned it
  reReturnAge,      \* history: age of the earlier return when a fingerprint was returned again
  passed,           \* history: articles passed to a marking operation, not purged since
  flagged,          \* history: the record flag_article_as_duplicate wrote last, as a set
  lastLoad,         \* history: the latest load_tracking_data, fresh until the next step
  lastWrite,        \* history: the latest store write and how it ended
  writeFailures,    \* history: store writes that failed
  tasks,            \* the asyncio tasks that can call post_to_channel: where each one is
  scoring           \* the feed entry fetch_all_feeds is processing, and its score

vars == << now, ticks, seq, feed, posted_articles, file, pc, attempt, article, result, check,
           cycles, restarts, stats, ranked0, verdicts, marked, returned, reReturnAge,
           passed, flagged, lastLoad, lastWrite, writeFailures, tasks, scoring >>

Ts == <<now, seq>>

NoStats == [fetches |-> 0, extracts |-> 0, marks |-> 0, flags |-> 0,
            simCalls |-> 0, relCalls |-> 0, failing |-> {}, fetched |-> << >>,
            failedFetches |-> 0]
NoCheck == [kind |-> "none", unavailable |-> "no", called |-> FALSE,
            verdict |-> FALSE, score |-> 0]
NoLoad == [fresh |-> FALSE, src |-> EmptyDict, legacy |-> {}, found |-> "none",
           failed |-> FALSE, cleaned |-> FALSE, ends |-> "returned"]

(* What a load leaves for the history: the records and the legacy         *)
(* fingerprints the file held, what kind of file was found, whether the   *)
(* load ended in the except branch, and how the constructor ended.        *)
Loaded(f, ok) ==
  [fresh |-> TRUE,
   src |-> IF f.exists /\ f.format = "dict" THEN f.posted_articles ELSE EmptyDict,
   legacy |-> IF f.exists /\ f.format = "list" THEN f.legacy ELSE {},
   found |-> IF f.exists THEN f.format ELSE "missing",
   failed |-> \/ ~ok
              \/ f.exists /\ f.format = "corrupt"
              \/ f.exists /\ f.format = "dict" /\ cleanup_old_entries_raises(f.posted_articles),
   cleaned |-> ok /\ f.exists /\ f.format = "dict",
   ends |-> load_tracking_data_ends(f, ok)]
NoWrite == [op |-> "none", failed |-> FALSE, ends |-> "returned"]

(* The tasks main_bot creates (bot.py:1703-1705); each one awaits         *)
(* post_to_channel when its trigger comes.                                *)
Tasks == {"news_scheduler", "console_monitor", "signal_monitor"}

(* A task outside post_to_channel: sleeping, waiting for input, polling.  *)
WaitingTask == [pc |-> "waiting", attempt |-> 0, articles |-> << >>, article |-> NoArticle]

(* The entries the feeds hold while the tasks run: two of them have one   *)
(* fingerprint, one scores under the threshold.                           *)
TaskEntries == {1, 2, 6, 7}
NeverReturned == -1

(* The store files the process can find when it starts: none, one in the  *)
(* legacy list format, one holding a flagged record and a record whose    *)
(* posted_at does not parse, one that is not JSON.                        *)
LegacyFile ==
  [exists |-> TRUE, format |-> "list", posted_articles |-> EmptyDict,
   legacy |-> {get_article_hash(2), get_article_hash(5)},
   last_updated |-> <<0, 0>>, total_tracked |-> 2]

OldFile ==
  [exists |-> TRUE, format |-> "dict",
   posted_articles |->
     DictPut(DictPut(EmptyDict, get_article_hash(4), PostedRecord(4, Unparseable)),
             get_article_hash(5), FlaggedRecord(5, <<0, 0>>, <<"same story">>)),
   legacy |-> {}, last_updated |-> <<0, 0>>, total_tracked |-> 2]

CorruptFile ==
  [exists |-> TRUE, format |-> "corrupt", posted_articles |-> EmptyDict,
   legacy |-> {}, last_updated |-> <<0, 0>>, total_tracked |-> 0]

(* A store file with a record whose posted_at is null, next to a record   *)
(* written the same day.                                                  *)
NullStampFile ==
  [exists |-> TRUE, format |-> "dict",
   posted_articles |->
     DictPut(DictPut(EmptyDict, get_article_hash(4), PostedRecord(4, NotAString)),
             get_article_hash(5), PostedRecord(5, <<0, 0>>)),
   legacy |-> {}, last_updated |-> <<0, 0>>, total_tracked |-> 2]

InitFiles == {NoFile, LegacyFile, OldFile, CorruptFile, NullStampFile}

(* The articles whose fingerprint a store file holds. *)
ArticlesIn(f) ==
  { a \in Articles : get_article_hash(a) \in (DOMAIN f.posted_articles) \cup f.legacy }

(* The state after construction, the process having found file f and     *)
(* its read having succeeded (ok) or not.                                  *)
InitWith(f, ok) ==
  /\ now = 0
  /\ ticks = 0
  /\ seq = 1
  /\ feed = {}
  /\ file = f
  /\ posted_articles = load_tracking_data(f, <<0, 0>>, ok)
  /\ pc = "idle"
  /\ attempt = 0
  /\ article = NoArticle
  /\ result = NoArticle
  /\ check = NoCheck
  /\ cycles = 0
  /\ restarts = 0
  /\ stats = NoStats
  /\ ranked0 = << >>
  /\ verdicts = << >>
  /\ marked = {}
  /\ returned = EmptyDict
  /\ reReturnAge = NeverReturned
  /\ passed = { a \in ArticlesIn(f) : is_duplicate(load_tracking_data(f, <<0, 0>>, ok), a) }
  /\ flagged = {}
  /\ lastLoad = Loaded(f, ok)
  /\ lastWrite = NoWrite
  /\ writeFailures = 0
  /\ tasks = [t \in Tasks |-> WaitingTask]

(* An entry of a feed before fetch_all_feeds has processed it. *)
Unscored(title, summary) ==
  [article |-> [title |-> title, summary |-> summary, category |-> NoCategory],
   scored |-> FALSE, relevance_score |-> 0, kept |-> FALSE, weights |-> << >>]

NoScoring == Unscored(<< >>, << >>)

Init == InitWith(NoFile, TRUE) /\ scoring = NoScoring

\* ------------------------------------------------- what the collaborator said
(* The answer the collaborator gave, read off the response itself, for    *)
(* the history of the cycle.                                              *)
SaysSimilar(response) ==
  response \in { <<"SIMILAR", ":", "same story">>, <<"similar", ":", "same story">> }

RelevanceSays(checklist, response) ==
  IF checklist # "loaded" THEN "not asked"
  ELSE IF response \in { <<"SCORE", ":", "5", "|", "REASON", ":", "medium">>,
                         <<"SCORE", ":", "9", "|", "REASON", ":", "strong">> }
  THEN "relevant"
  ELSE IF response = <<"SCORE", ":", "4", "|", "REASON", ":", "weak">> THEN "low"
  ELSE "no score"

\* ---------------------------------------------------------------- actions
Stale == lastLoad' = NoLoad /\ UNCHANGED <<tasks, scoring>>

(* post_to_channel is called by a trigger and enters generate_channel_news. *)
StartCycle ==
  /\ pc = "idle"
  /\ cycles < MaxCycles
  /\ pc' = "attempt"
  /\ attempt' = 0
  /\ cycles' = cycles + 1
  /\ feed' \in FeedChoices
  /\ article' = NoArticle
  /\ result' = NoArticle
  /\ check' = NoCheck
  /\ stats' = NoStats
  /\ ranked0' = << >>
  /\ verdicts' = << >>
  /\ marked' = {}
  /\ reReturnAge' = NeverReturned
  /\ Stale
  /\ UNCHANGED << now, ticks, seq, posted_articles, file, restarts, returned, passed,
                  flagged, lastWrite, writeFailures >>

(* One pass of the loop head of generate_channel_news, lines 756-769:     *)
(* get_single_relevant_article fetches the feeds, takes the top 5, has    *)
(* the content of each extracted, marks the first one the tracker does    *)
(* not know as posted (tracker in memory, then the file) and returns it;  *)
(* with None the loop continues with the next attempt.                    *)
GetSingleRelevantArticle(ok, failing) ==
  /\ pc = "attempt"
  /\ ok \/ writeFailures < MaxWriteFailures
  /\ failing = {} \/ stats.failedFetches < MaxFeedFailures
  /\ attempt < MAX_ATTEMPTS
  /\ \E entries \in {gather_feeds(feed, failing)} :
     \E articles \in {get_latest_relevant_news(entries, posted_articles, CANDIDATE_LIMIT)} :
     \E chosen \in {FirstNonDuplicate(articles, posted_articles)} :
     LET h == get_article_hash(chosen)
         withUrl == { i \in 1 .. Len(articles) : ArticleTable[articles[i]].url # "" }
     IN  /\ stats' = [stats EXCEPT !.fetches = @ + 1,
                                   !.extracts = @ + Cardinality(withUrl),
                                   !.marks = @ + (IF chosen = NoArticle THEN 0 ELSE 1),
                                   !.failing = failing,
                                   !.failedFetches = @ + (IF failing = {} THEN 0 ELSE 1),
                                   !.fetched = fetch_all_feeds(entries, posted_articles)]
         /\ ranked0' = IF stats.fetches = 0 THEN articles ELSE ranked0
         /\ check' = NoCheck
         /\ IF chosen = NoArticle
            THEN /\ attempt' = attempt + 1
                 /\ pc' = "attempt"
                 /\ article' = NoArticle
                 /\ UNCHANGED << seq, posted_articles, file, marked, returned, reReturnAge,
                                 passed, flagged, lastWrite, writeFailures >>
            ELSE /\ posted_articles' = mark_as_posted(posted_articles, chosen, Ts)
                 /\ file' = save_tracking_data(file, posted_articles', Ts, ok)
                 /\ seq' = seq + 1
                 /\ article' = chosen
                 /\ pc' = "similarity"
                 /\ attempt' = attempt
                 /\ marked' = marked \cup {chosen}
                 /\ reReturnAge' = IF h \in DOMAIN returned THEN now - returned[h]
                                   ELSE NeverReturned
                 /\ returned' = DictPut(returned, h, now)
                 /\ passed' = passed \cup {chosen}
                 /\ flagged' = flagged
                 /\ lastWrite' = [op |-> "mark_as_posted", failed |-> ~ok,
                                  ends |-> save_tracking_data_ends(ok)]
                 /\ writeFailures' = writeFailures + (IF ok THEN 0 ELSE 1)
  /\ Stale
  /\ UNCHANGED << now, ticks, feed, result, cycles, restarts, verdicts >>

(* A loop that starts over when it has run out of attempts, instead of   *)
(* returning None: the variant C20 is tried against.                      *)
Exhausted_starts_over ==
  /\ pc = "attempt"
  /\ attempt = MAX_ATTEMPTS
  /\ attempt' = 0
  /\ Stale
  /\ UNCHANGED << now, ticks, seq, feed, posted_articles, file, pc, article, result, check,
                  cycles, restarts, stats, ranked0, verdicts, marked, returned, reReturnAge,
                  passed, flagged, lastWrite, writeFailures >>

(* The loop of generate_channel_news ran out of attempts, lines 933-935. *)
Exhausted ==
  /\ pc = "attempt"
  /\ attempt = MAX_ATTEMPTS
  /\ result' = NoArticle
  /\ pc' = "done"
  /\ Stale
  /\ UNCHANGED << now, ticks, seq, feed, posted_articles, file, attempt, article, check, cycles,
                  restarts, stats, ranked0, verdicts, marked, returned, reReturnAge,
                  passed, flagged, lastWrite, writeFailures >>

(* Rejecting the candidate, lines 778-780 and 789-791: the flagged record *)
(* goes to the file and the loop continues.                               *)
Reject(reason, ok) ==
  /\ file' = flag_article_as_duplicate(file, article, reason, Ts, ok)
  /\ seq' = seq + 1
  /\ attempt' = attempt + 1
  /\ pc' = "attempt"
  /\ passed' = passed \cup {article}
  /\ flagged' = IF ~ok \/ (file.exists /\ file.format # "dict") THEN flagged
                ELSE { [hash |-> get_article_hash(article),
                        meta |-> FlaggedRecord(article, Ts, reason)] }
  /\ lastWrite' = [op |-> "flag_article_as_duplicate",
                   failed |-> ~ok \/ (file.exists /\ file.format # "dict"),
                   ends |-> flag_article_as_duplicate_ends(ok)]
  /\ writeFailures' = writeFailures + (IF ok THEN 0 ELSE 1)

(* Step 1 of generate_channel_news, lines 771-780. *)
CheckSimilarity(response, ok) ==
  /\ pc = "similarity"
  /\ ok \/ writeFailures < MaxWriteFailures
  /\ \E r \in {check_similarity_to_recent_news(posted_articles, response)} :
         /\ check' = [kind |-> "similarity",
                      unavailable |-> IF r.called /\ ~Truthy(response) THEN "no response" ELSE "no",
                      called |-> r.called, verdict |-> r.is_similar, score |-> 0]
         /\ stats' = [stats EXCEPT !.simCalls = @ + (IF r.called THEN 1 ELSE 0),
                                   !.flags = @ + (IF r.is_similar THEN 1 ELSE 0)]
         /\ IF r.is_similar
            THEN Reject(r.reason, ok)
            ELSE /\ pc' = "relevance"
                 /\ UNCHANGED << seq, file, attempt, passed, flagged, lastWrite, writeFailures >>
         /\ verdicts' = Append(verdicts,
                               [article |-> article, simSays |-> SaysSimilar(response),
                                relSays |-> "not asked",
                                outcome |-> IF r.is_similar THEN "similar" ELSE "pending"])
  /\ Stale
  /\ UNCHANGED << now, ticks, feed, posted_articles, article, result, cycles, restarts, ranked0,
                  marked, returned, reReturnAge >>

(* Step 2 of generate_channel_news, lines 782-793. *)
VerifyRelevance(checklist, response, ok) ==
  /\ pc = "relevance"
  /\ ok \/ writeFailures < MaxWriteFailures
  /\ LET r == verify_news_relevance(checklist, response)
     IN  /\ check' = [kind |-> "relevance",
                      unavailable |-> IF checklist # "loaded" THEN checklist
                                      ELSE IF ~Truthy(response) THEN "no response" ELSE "no",
                      called |-> r.called, verdict |-> r.is_relevant, score |-> r.score]
         /\ stats' = [stats EXCEPT !.relCalls = @ + (IF r.called THEN 1 ELSE 0),
                                   !.flags = @ + (IF r.is_relevant THEN 0 ELSE 1)]
         /\ IF ~r.is_relevant
            THEN Reject(<<"Low relevance:", ToString(r.score), "/10 -">> \o r.reason, ok)
            ELSE /\ pc' = "analysis"
                 /\ UNCHANGED << seq, file, attempt, passed, flagged, lastWrite, writeFailures >>
         /\ verdicts' = [verdicts EXCEPT ![Len(verdicts)] =
                           [@ EXCEPT !.relSays = RelevanceSays(checklist, response),
                                     !.outcome = IF r.is_relevant THEN "accepted"
                                                 ELSE "low relevance"]]
  /\ Stale
  /\ UNCHANGED << now, ticks, feed, posted_articles, article, result, cycles, restarts, ranked0,
                  marked, returned, reReturnAge >>

(* Steps 3 and 4 of generate_channel_news, lines 795-931: the analysis    *)
(* (with its fallback bullets when the call fails) and the message of the *)
(* approved article, which is returned.                                   *)
GenerateMessage ==
  /\ pc = "analysis"
  /\ result' = article
  /\ pc' = "done"
  /\ check' = NoCheck
  /\ Stale
  /\ UNCHANGED << now, ticks, seq, feed, posted_articles, file, attempt, article, cycles, verdicts,
                  restarts, stats, ranked0, marked, returned, reReturnAge, passed,
                  flagged, lastWrite, writeFailures >>

(* The send_message of post_to_channel (bot.py:1022) raises for the        *)
(* message of the approved article: the task is in the except branch,     *)
(* lines 1040-1054, which logs the error and edits the status message.    *)
(* Nothing there touches the tracker.                                     *)
SendMessageFails ==
  /\ pc = "done"
  /\ result # NoArticle
  /\ pc' = "send failed"
  /\ Stale
  /\ UNCHANGED << now, ticks, seq, feed, posted_articles, file, attempt, article, result,
                  check, cycles, verdicts, restarts, stats, ranked0, marked, returned,
                  reReturnAge, passed, flagged, lastWrite, writeFailures >>

(* post_to_channel after generate_channel_news returned, lines 1006-1039, *)
(* or after its except branch: it returns to the caller's loop.           *)
FinishCycle ==
  /\ pc \in {"done", "send failed"}
  /\ pc' = "idle"
  /\ attempt' = 0
  /\ article' = NoArticle
  /\ result' = NoArticle
  /\ check' = NoCheck
  /\ stats' = NoStats
  /\ ranked0' = << >>
  /\ verdicts' = << >>
  /\ marked' = {}
  /\ reReturnAge' = NeverReturned
  /\ Stale
  /\ feed' = {}
  /\ UNCHANGED << now, ticks, seq, posted_articles, file, cycles, restarts, returned,
                  passed, flagged, lastWrite, writeFailures >>

(* Time passes between two cycles. *)
Tick ==
  /\ pc = "idle"
  /\ ticks < Len(ClockSteps)
  /\ ticks' = ticks + 1
  /\ now' = now + ClockSteps[ticks + 1]
  /\ seq' = 0
  /\ Stale
  /\ UNCHANGED << feed, posted_articles, file, pc, attempt, article, result, check, cycles,
                  restarts, stats, ranked0, verdicts, marked, returned, reReturnAge,
                  passed, flagged, lastWrite, writeFailures >>

(* The process stops between two cycles and starts again: NewsScraper()  *)
(* builds a NewsTracker, whose constructor calls load_tracking_data.      *)
Restart(ok) ==
  /\ pc = "idle"
  /\ restarts < MaxRestarts
  /\ restarts' = restarts + 1
  /\ posted_articles' = load_tracking_data(file, Ts, ok)
  /\ pc' = "idle"
  /\ attempt' = 0
  /\ article' = NoArticle
  /\ result' = NoArticle
  /\ check' = NoCheck
  /\ stats' = NoStats
  /\ ranked0' = << >>
  /\ verdicts' = << >>
  /\ marked' = {}
  /\ reReturnAge' = NeverReturned
  /\ passed' = { a \in passed : get_article_hash(a) \in DOMAIN posted_articles' }
  /\ flagged' = flagged
  /\ lastLoad' = Loaded(file, ok)
  /\ UNCHANGED <<tasks, scoring>>
  /\ feed' = {}
  /\ UNCHANGED << now, ticks, seq, file, cycles, returned, lastWrite, writeFailures >>

GetArticle == GetSingleRelevantArticle(TRUE, {})
Similarity == \E response \in SimilarityResponses : CheckSimilarity(response, TRUE)
Relevance ==
  \E checklist \in ChecklistStates, response \in RelevanceResponses :
    VerifyRelevance(checklist, response, TRUE)
Reload == Restart(TRUE)

Next ==
  \/ StartCycle
  \/ GetArticle
  \/ Exhausted
  \/ Similarity
  \/ Relevance
  \/ GenerateMessage
  \/ FinishCycle
  \/ Tick
  \/ Reload

Spec == Init /\ [][Next]_vars

(* The cycles alone, every awaited call of a cycle returning: a step of   *)
(* generate_channel_news that can be taken is taken.                      *)
CycleStep ==
  \/ GetArticle
  \/ Exhausted
  \/ Similarity
  \/ Relevance
  \/ GenerateMessage

NextCycles ==
  \/ StartCycle
  \/ CycleStep
  \/ FinishCycle

SpecFair == Init /\ [][NextCycles]_vars /\ WF_vars(CycleStep)

(* The same program on a disk whose writes can fail. *)
GetArticleWriteFails == GetSingleRelevantArticle(FALSE, {})
SimilarityWriteFails == \E response \in SimilarityResponses : CheckSimilarity(response, FALSE)
RelevanceWriteFails ==
  \E checklist \in ChecklistStates, response \in RelevanceResponses :
    VerifyRelevance(checklist, response, FALSE)

NextIO ==
  \/ StartCycle
  \/ GetArticle
  \/ GetArticleWriteFails
  \/ Exhausted
  \/ Similarity
  \/ SimilarityWriteFails
  \/ Relevance
  \/ RelevanceWriteFails
  \/ GenerateMessage
  \/ FinishCycle
  \/ Reload

SpecIO == Init /\ [][NextIO]_vars

(* The same program started on any of the store files, with reads that   *)
(* can fail; the clock stands still.                                      *)
InitLoad == \E f \in InitFiles, ok \in BOOLEAN : InitWith(f, ok) /\ scoring = NoScoring

ReloadFails == Restart(FALSE)

NextLoad ==
  \/ StartCycle
  \/ GetArticle
  \/ Exhausted
  \/ Similarity
  \/ Relevance
  \/ GenerateMessage
  \/ FinishCycle
  \/ Reload
  \/ ReloadFails

SpecLoad == InitLoad /\ [][NextLoad]_vars

(* The first cycle of the program with feed sources that can fail, any    *)
(* subset of them at each fetch.                                          *)
GetArticleSourcesFail ==
  \E failing \in SUBSET Sources : GetSingleRelevantArticle(TRUE, failing)

StartFirstCycle == cycles = 0 /\ StartCycle

NextFeeds ==
  \/ StartFirstCycle
  \/ GetArticleSourcesFail
  \/ Exhausted
  \/ Similarity
  \/ Relevance
  \/ GenerateMessage
  \/ FinishCycle

SpecFeeds == Init /\ [][NextFeeds]_vars

(* The cycles when the channel can refuse the message. *)
NextSend ==
  \/ StartCycle
  \/ GetArticle
  \/ Exhausted
  \/ Similarity
  \/ Relevance
  \/ GenerateMessage
  \/ SendMessageFails
  \/ FinishCycle
  \/ Tick
  \/ Reload

SpecSend == Init /\ [][NextSend]_vars

\* ------------------------------------------------------- concurrent tasks
(* The three tasks run on one event loop: a task runs until it awaits,    *)
(* and while it is suspended another task can run.  Each action below is  *)
(* the code one task runs between two suspension points.  The tracker     *)
(* and the file are shared; nothing in post_to_channel or in the three    *)
(* callers holds a lock or tests whether a cycle is in progress.          *)
CycleVars == << now, ticks, feed, pc, attempt, article, result, check, restarts, stats,
                ranked0, verdicts, marked, returned, reReturnAge, passed, flagged,
                lastWrite, writeFailures, scoring >>

InCycle(t) == tasks[t].pc # "waiting"

(* The loop head of generate_channel_news for a task that has used        *)
(* attempt n: the next get_single_relevant_article, or the return of None *)
(* and then the status edit of post_to_channel.                           *)
LoopHead(n) == IF n < MAX_ATTEMPTS THEN "fetch" ELSE "send"

(* The trigger of task t comes (the sleep of news_scheduler ends, the     *)
(* console reads "next", the signal file says post_news): the task enters *)
(* post_to_channel and is suspended in send_message, bot.py:991.          *)
Trigger(t) ==
  /\ ~InCycle(t)
  /\ cycles < MaxTriggers
  /\ cycles' = cycles + 1
  /\ tasks' = [tasks EXCEPT ![t] = [WaitingTask EXCEPT !.pc = "status"]]
  /\ lastLoad' = NoLoad
  /\ UNCHANGED << seq, posted_articles, file >>
  /\ UNCHANGED CycleVars

(* The status message is sent, generate_channel_news starts and           *)
(* fetch_all_feeds is suspended in asyncio.gather, news_scraper.py:417.   *)
StatusSent(t) ==
  /\ tasks[t].pc = "status"
  /\ tasks' = [tasks EXCEPT ![t].pc = "fetch"]
  /\ lastLoad' = NoLoad
  /\ UNCHANGED << seq, posted_articles, file, cycles >>
  /\ UNCHANGED CycleVars

(* The feeds have answered: fetch_all_feeds filters against the tracker   *)
(* as it is now, sorts, and get_latest_relevant_news is suspended in the  *)
(* gather of the content extraction, news_scraper.py:481.                 *)
Fetched(t) ==
  /\ tasks[t].pc = "fetch"
  /\ tasks' = [tasks EXCEPT ![t].pc = "extract",
                            ![t].articles = Take(fetch_all_feeds(TaskEntries, posted_articles),
                                                 CANDIDATE_LIMIT)]
  /\ lastLoad' = NoLoad
  /\ UNCHANGED << seq, posted_articles, file, cycles >>
  /\ UNCHANGED CycleVars

(* The contents are there: the loop of get_single_relevant_article tests  *)
(* is_duplicate against the tracker as it is now and marks the article it *)
(* chooses, with no await in between; the task is then suspended in the   *)
(* similarity call, bot.py:455, or continues the loop with None.          *)
Selected(t) ==
  /\ tasks[t].pc = "extract"
  /\ LET chosen == FirstNonDuplicate(tasks[t].articles, posted_articles)
     IN  IF chosen = NoArticle
         THEN /\ tasks' = [tasks EXCEPT ![t].pc = LoopHead(tasks[t].attempt + 1),
                                        ![t].attempt = @ + 1,
                                        ![t].article = NoArticle]
              /\ UNCHANGED << seq, posted_articles, file >>
         ELSE /\ posted_articles' = mark_as_posted(posted_articles, chosen, Ts)
              /\ file' = save_tracking_data(file, posted_articles', Ts, TRUE)
              /\ seq' = seq + 1
              /\ tasks' = [tasks EXCEPT ![t].pc = "similarity", ![t].article = chosen]
  /\ lastLoad' = NoLoad
  /\ UNCHANGED cycles
  /\ UNCHANGED CycleVars

(* The task flags its candidate and continues the loop. *)
TaskReject(t, reason) ==
  /\ file' = flag_article_as_duplicate(file, tasks[t].article, reason, Ts, TRUE)
  /\ seq' = seq + 1
  /\ tasks' = [tasks EXCEPT ![t].pc = LoopHead(tasks[t].attempt + 1),
                            ![t].attempt = @ + 1]

(* The similarity collaborator has answered. *)
SimilarityAnswered(t, response) ==
  /\ tasks[t].pc = "similarity"
  /\ LET r == check_similarity_to_recent_news(posted_articles, response)
     IN  IF r.is_similar
         THEN TaskReject(t, r.reason)
         ELSE /\ tasks' = [tasks EXCEPT ![t].pc = "relevance"]
              /\ UNCHANGED << seq, file >>
  /\ lastLoad' = NoLoad
  /\ UNCHANGED << posted_articles, cycles >>
  /\ UNCHANGED CycleVars

(* The relevance collaborator has answered; an approved article goes on   *)
(* to the analysis and the message, and the task is suspended in the      *)
(* send_message of post_to_channel.                                       *)
RelevanceAnswered(t, checklist, response) ==
  /\ tasks[t].pc = "relevance"
  /\ LET r == verify_news_relevance(checklist, response)
     IN  IF ~r.is_relevant
         THEN TaskReject(t, <<"Low relevance:", ToString(r.score), "/10 -">> \o r.reason)
         ELSE /\ tasks' = [tasks EXCEPT ![t].pc = "send"]
              /\ UNCHANGED << seq, file >>
  /\ lastLoad' = NoLoad
  /\ UNCHANGED << posted_articles, cycles >>
  /\ UNCHANGED CycleVars

(* post_to_channel has sent the message, or the notice that there is no   *)
(* news, and returns to the caller's loop.                                *)
Sent(t) ==
  /\ tasks[t].pc = "send"
  /\ tasks' = [tasks EXCEPT ![t] = WaitingTask]
  /\ lastLoad' = NoLoad
  /\ UNCHANGED << seq, posted_articles, file, cycles >>
  /\ UNCHANGED CycleVars

TaskTrigger == \E t \in Tasks : Trigger(t)
TaskStatusSent == \E t \in Tasks : StatusSent(t)
TaskFetched == \E t \in Tasks : Fetched(t)
TaskSelected == \E t \in Tasks : Selected(t)
TaskSimilarity ==
  \E t \in Tasks, response \in SimilarityResponses : SimilarityAnswered(t, response)
TaskRelevance ==
  \E t \in Tasks, checklist \in ChecklistStates, response \in RelevanceResponses :
    RelevanceAnswered(t, checklist, response)
TaskSent == \E t \in Tasks : Sent(t)

NextTasks ==
  \/ TaskTrigger
  \/ TaskStatusSent
  \/ TaskFetched
  \/ TaskSelected
  \/ TaskSimilarity
  \/ TaskRelevance
  \/ TaskSent

SpecTasks == Init /\ [][NextTasks]_vars

\* ------------------------------------------------------- scoring an entry
(* The body of the loop of fetch_all_feeds over the entries of a feed:    *)
(* the entry is scored and kept when its score reaches the threshold.     *)
InitScore ==
  /\ InitWith(NoFile, TRUE)
  /\ \E title \in Titles, summary \in Summaries : scoring = Unscored(title, summary)

ProcessEntry ==
  /\ ~scoring.scored
  /\ LET r == calculate_relevance_score(scoring.article)
     IN  scoring' = [article |-> r.article, scored |-> TRUE, relevance_score |-> r.score,
                     kept |-> r.score >= THRESHOLD_TENTHS, weights |-> r.weights]
  /\ UNCHANGED << now, ticks, seq, feed, posted_articles, file, pc, attempt, article, result,
                  check, cycles, restarts, stats, ranked0, verdicts, marked, returned,
                  reReturnAge, passed, flagged, lastLoad, lastWrite, writeFailures, tasks >>

NextScore == ProcessEntry

SpecScore == InitScore /\ [][NextScore]_vars

TypeOK ==
  /\ now \in 0 .. Len(ClockSteps) * RETENTION_DAYS
  /\ pc \in {"idle", "attempt", "similarity", "relevance", "analysis", "done", "send failed"}
  /\ attempt \in 0 .. MAX_ATTEMPTS
  /\ article \in Articles \cup {NoArticle}
  /\ DOMAIN posted_articles \subseteq Hashes

\* ------------------------------------------------------------- properties
Age(posted_at) == now - posted_at[1]

(* C1: get_single_relevant_article never returns an article whose          *)
(* fingerprint it returned in an earlier call, in this process or before  *)
(* a restart, while the earlier return is at most 7 days old.             *)
C1_NoRepeatWithinRetention ==
  reReturnAge = NeverReturned \/ reReturnAge > RETENTION_DAYS

(* C1 witness: after a restart an article is returned although the feed    *)
(* offers a better ranked article that was returned before, which is      *)
(* skipped.                                                               *)
C1_Witness ==
  /\ pc = "similarity"
  /\ restarts > 0
  /\ \E a \in feed :
       /\ get_article_hash(a) \in DOMAIN returned
       /\ get_article_hash(a) # get_article_hash(article)
       /\ now - returned[get_article_hash(a)] <= RETENTION_DAYS
       /\ RanksBefore(a, article)

(* C2: is_duplicate(a) is true exactly for the articles whose (title,     *)
(* url) pair was passed to mark_as_posted or flag_article_as_duplicate    *)
(* and has not been purged since.                                         *)
C2_DuplicateIffPassed ==
  \A a \in Articles : is_duplicate(posted_articles, a) <=> a \in passed

(* C3: a candidate is passed to mark_as_posted only after the similarity  *)
(* verdict and the relevance verdict for it have been obtained and both   *)
(* let it pass; no rejected candidate is written as posted.               *)
C3_PostedOnlyAfterVerdicts ==
  \A a \in marked :
    \E i \in 1 .. Len(verdicts) : verdicts[i].article = a /\ verdicts[i].outcome = "accepted"

(* The scenario of C4 at the end of a cycle: the first fetch ranked five  *)
(* candidates, the collaborator answered "similar" whenever the cycle     *)
(* consulted it on the first or the second of them, and on the third it   *)
(* answered "unique" and gave a score of at least 5.                      *)
C4_Scenario ==
  /\ pc = "done"
  /\ Len(ranked0) = CANDIDATE_LIMIT
  /\ \A i \in 1 .. Len(verdicts) :
       /\ verdicts[i].article \in {ranked0[1], ranked0[2]} => verdicts[i].simSays
       /\ verdicts[i].article = ranked0[3] =>
            ~verdicts[i].simSays /\ verdicts[i].relSays = "relevant"
       /\ verdicts[i].article \notin {ranked0[4], ranked0[5]}

(* C4: in that scenario the cycle ends accepted with the third candidate,  *)
(* after exactly 2 rejected-store-writes and exactly 3 similarity calls;  *)
(* the relevance collaborator was called at most 3 times and only for the *)
(* third candidate, the only one similarity let pass.                     *)
C4_TwoSimilarThenAccepted ==
  C4_Scenario =>
    /\ result = ranked0[3]
    /\ stats.flags = 2
    /\ stats.simCalls = 3
    /\ stats.relCalls <= 3
    /\ stats.relCalls <= 1
    /\ Len(verdicts) = 3
    /\ verdicts[1].outcome = "similar" /\ verdicts[2].outcome = "similar"
    /\ verdicts[3].outcome = "accepted"

(* C4 witness: the scenario has run to its end. *)
C4_Witness ==
  /\ C4_Scenario
  /\ Len(verdicts) = 3
  /\ result = ranked0[3]

(* C5: when all 5 candidates of a cycle are rejected, the cycle ends       *)
(* exhausted with no result, no mark_as_posted call and exactly 5         *)
(* flag_article_as_duplicate calls.                                       *)
C5_AllRejectedNoPostedMark ==
  ( /\ pc = "done"
    /\ Len(ranked0) = CANDIDATE_LIMIT
    /\ Len(verdicts) = CANDIDATE_LIMIT
    /\ \A i \in 1 .. Len(verdicts) : verdicts[i].outcome \in {"similar", "low relevance"} )
  => ( result = NoArticle /\ stats.marks = 0 /\ stats.flags = 5 )

(* The records get_recent_articles reports, by fingerprint. *)
Reported(h) ==
  { r \in { get_recent_articles(posted_articles, Cardinality(DOMAIN posted_articles))[i] :
              i \in 1 .. Cardinality(DOMAIN posted_articles) } : r.hash = h }

(* C6: the record flag_article_as_duplicate wrote for a rejected          *)
(* candidate, with its duplicate flag and its reason, stays as written in *)
(* the file and in what get_recent_articles and get_tracker_stats report  *)
(* while other articles are marked, until expiry removes it.  Stated for  *)
(* the record of the latest rejection.                                    *)
C6_RejectedRecordKept ==
  \A r \in flagged :
    Age(r.meta.posted_at) <= RETENTION_DAYS =>
      /\ r.hash \in DOMAIN file.posted_articles
      /\ file.posted_articles[r.hash] = r.meta
      /\ Reported(r.hash) = {r}

(* The score verify_news_relevance falls back to, by failure. *)
DefaultScore(unavailable) ==
  CASE unavailable = "absent" -> SCORE_CHECKLIST_ABSENT
    [] unavailable = "no response" -> SCORE_AI_UNAVAILABLE
    [] unavailable = "malformed" -> SCORE_ON_ERROR
    [] OTHER -> -1

C8_WriteFailurePropagates ==
  lastWrite.failed => lastWrite.ends = "raised"

(* C9: the marking operations persist at once and no later write loses   *)
(* what they wrote: after a restart the store holds the record the last   *)
(* flag_article_as_duplicate before it wrote, as written, when that       *)
(* record is at most 7 days old.                                          *)
C9_WrittenRecordsRecovered ==
  lastLoad.fresh =>
    \A r \in flagged :
      Age(r.meta.posted_at) <= RETENTION_DAYS =>
        r.hash \in DOMAIN posted_articles /\ posted_articles[r.hash] = r.meta

C11_LoadNeverFails ==
  (lastLoad.fresh /\ (lastLoad.found = "missing" \/ lastLoad.failed)) =>
    /\ posted_articles = EmptyDict
    /\ lastLoad.ends = "returned"

(* C11 witness: a restart could not read a file that holds records, and   *)
(* the tracker is empty.                                                  *)
C11_Witness ==
  /\ lastLoad.fresh
  /\ restarts > 0
  /\ lastLoad.failed
  /\ lastLoad.found = "dict"
  /\ lastLoad.src # EmptyDict
  /\ posted_articles = EmptyDict

(* C12: a legacy file, whose posted_articles is a list of fingerprints,   *)
(* loads without error into exactly one placeholder record for each       *)
(* fingerprint of the list, so is_duplicate is true for exactly the       *)
(* articles with those fingerprints.                                      *)
C12_LegacyListLoads ==
  (lastLoad.fresh /\ lastLoad.found = "list" /\ ~lastLoad.failed) =>
    /\ lastLoad.ends = "returned"
    /\ DOMAIN posted_articles = lastLoad.legacy
    /\ \A h \in lastLoad.legacy :
         /\ posted_articles[h].title = "Legacy Article"
         /\ posted_articles[h].source = "unknown"
         /\ posted_articles[h].posted_at[1] = now
         /\ ~posted_articles[h].is_duplicate
    /\ \A a \in Articles :
         is_duplicate(posted_articles, a) <=> get_article_hash(a) \in lastLoad.legacy

(* C12 witness: a restart loaded a legacy list of two fingerprints; the   *)
(* two articles are duplicates and another one is not.                    *)
C12_Witness ==
  /\ lastLoad.fresh
  /\ restarts > 0
  /\ lastLoad.found = "list"
  /\ ~lastLoad.failed
  /\ Cardinality(lastLoad.legacy) = 2
  /\ is_duplicate(posted_articles, 2)
  /\ is_duplicate(posted_articles, 5)
  /\ ~is_duplicate(posted_articles, 1)

(* C13: at most one selection cycle is in progress at any time: no two    *)
(* of the scheduler, the console monitor and the signal monitor are       *)
(* inside post_to_channel together.                                       *)
C13_OneCycleAtATime ==
  Cardinality({ t \in Tasks : InCycle(t) }) <= 1

(* The tracker as fetch_all_feeds of the latest attempt saw it: the       *)
(* article that attempt then marked was not yet in it.                    *)
TrackerAtFetch ==
  IF article = NoArticle THEN posted_articles
  ELSE DictRemove(posted_articles, {get_article_hash(article)})

(* C14: whatever subset of the sources fails, fetch_all_feeds completes;  *)
(* a failing source contributes no entry to its result, and every entry   *)
(* of a source that did not fail which reaches the threshold and is not   *)
(* tracked is in the result.                                              *)
C14_FailingSourcesContributeNothing ==
  (stats.fetches > 0 /\ pc \in {"attempt", "similarity"}) =>
    /\ \A i \in 1 .. Len(stats.fetched) :
         /\ stats.fetched[i] \in feed
         /\ ArticleTable[stats.fetched[i]].source \notin stats.failing
    /\ \A a \in feed :
         ( /\ ArticleTable[a].source \notin stats.failing
           /\ ArticleTable[a].relevance_score >= THRESHOLD_TENTHS
           /\ ~is_duplicate(TrackerAtFetch, a) ) =>
           \E i \in 1 .. Len(stats.fetched) : stats.fetched[i] = a

(* C14 witness: one source failed, the fetch came back with entries of    *)
(* the others and a candidate was chosen from them.                       *)
C14_Witness ==
  /\ pc = "similarity"
  /\ Cardinality(stats.failing) = 1
  /\ Len(stats.fetched) >= 2
  /\ \E a \in feed : ArticleTable[a].source \in stats.failing
                      /\ ArticleTable[a].relevance_score >= THRESHOLD_TENTHS

\* ------------------------------------------------- properties of the scorer
HoldsExclusionPhrase(entry) ==
  \E k \in 1 .. Len(price_prediction_keywords) :
    IsIn(price_prediction_keywords[k], article_text(entry))

(* The <<category, keyword>> pairs of RELEVANCE_KEYWORDS the text of the  *)
(* entry holds.                                                           *)
TopicMatches(entry) ==
  { p \in UNION { {c} \X (1 .. Len(RELEVANCE_KEYWORDS[c].keywords)) :
                  c \in 1 .. Len(RELEVANCE_KEYWORDS) } :
      IsIn(RELEVANCE_KEYWORDS[p[1]].keywords[p[2]], article_text(entry)) }

(* C15: an entry whose lowercased title and summary hold a phrase of the  *)
(* price-speculation exclusion list scores exactly 0, whatever topic      *)
(* keywords it also matches.                                              *)
C15_ExclusionScoresZero ==
  (scoring.scored /\ HoldsExclusionPhrase(scoring.article)) => scoring.relevance_score = 0

C15_Witness ==
  /\ scoring.scored
  /\ HoldsExclusionPhrase(scoring.article)
  /\ TopicMatches(scoring.article) # {}
  /\ scoring.relevance_score = 0

(* C16: a non-excluded entry matching keywords of at least 2 categories   *)
(* scores min(15.0, 1.5 x the sum of the weights of all matched           *)
(* keywords); one matching exactly one category scores min(15.0, that     *)
(* sum).                                                                  *)
C16_BonusAndCap ==
  (scoring.scored /\ ~HoldsExclusionPhrase(scoring.article)) =>
    LET matches == TopicMatches(scoring.article)
        categories == Cardinality({ p[1] : p \in matches })
        sum == SumOver(scoring.weights, matches)
    IN  /\ DOMAIN scoring.weights = matches
        /\ categories >= 2 =>
             scoring.relevance_score = Min2(SCORE_CAP_TENTHS, (3 * sum) \div 2)
        /\ categories = 1 => scoring.relevance_score = Min2(SCORE_CAP_TENTHS, sum)

C16_Witness ==
  /\ scoring.scored
  /\ ~HoldsExclusionPhrase(scoring.article)
  /\ Cardinality({ p[1] : p \in TopicMatches(scoring.article) }) >= 2
  /\ scoring.relevance_score < SCORE_CAP_TENTHS
  /\ scoring.relevance_score > SumOver(scoring.weights, DOMAIN scoring.weights)

(* C17: a matched keyword adds weight 3 when the title holds it and       *)
(* weight 1 when only the summary holds it, so a title match weighs       *)
(* exactly 3 times the same keyword found only in the summary.            *)
C17_TitleWeighsThreefold ==
  (scoring.scored /\ ~HoldsExclusionPhrase(scoring.article)) =>
    \A p \in TopicMatches(scoring.article) :
      LET keyword == RELEVANCE_KEYWORDS[p[1]].keywords[p[2]]
          in_title == IsIn(keyword, lower(scoring.article.title))
          in_summary == IsIn(keyword, lower(scoring.article.summary))
      IN  /\ p \in DOMAIN scoring.weights
          /\ in_title => scoring.weights[p] = 3 * SUMMARY_WEIGHT_TENTHS
          /\ (~in_title /\ in_summary) => scoring.weights[p] = SUMMARY_WEIGHT_TENTHS

C17_Witness ==
  /\ scoring.scored
  /\ ~HoldsExclusionPhrase(scoring.article)
  /\ \E p, q \in DOMAIN scoring.weights :
       /\ IsIn(RELEVANCE_KEYWORDS[p[1]].keywords[p[2]], lower(scoring.article.title))
       /\ scoring.weights[p] = 3 * scoring.weights[q]
       /\ ~IsIn(RELEVANCE_KEYWORDS[q[1]].keywords[q[2]], lower(scoring.article.title))
       /\ IsIn(RELEVANCE_KEYWORDS[q[1]].keywords[q[2]], lower(scoring.article.summary))

\* ---------------------------------------------------- cycle: extraction
(* C18: full-content extraction is invoked at most once per selection     *)
(* cycle and only for the accepted candidate: no page is fetched for a    *)
(* candidate that is rejected or never evaluated.                         *)
C18_ExtractionOnlyForAccepted ==
  /\ stats.extracts <= 1
  /\ stats.extracts = 1 => result # NoArticle

\* ------------------------------------------------------- cycle: ranking
Score(a) == ArticleTable[a].relevance_score

RejectedInCycle(a) ==
  \E i \in 1 .. Len(verdicts) :
    verdicts[i].article = a /\ verdicts[i].outcome \in {"similar", "low relevance"}

PlaceIn(list, a) == CHOOSE i \in 1 .. Len(list) : list[i] = a

(* C19: of the entries of the feeds those scoring at or below the         *)
(* threshold 1.5 are discarded; the others (not tracked) are ordered by   *)
(* score descending and, for equal scores, by published timestamp         *)
(* descending; the candidate evaluated is among the top 5 of that list,   *)
(* everything ranked above it there was skipped as a duplicate, and every *)
(* candidate ranked above it in the first list of the cycle was skipped   *)
(* or rejected before.                                                    *)
C19_CandidateRanking ==
  (pc = "similarity" /\ stats.fetches > 0) =>
    LET list == stats.fetched
        listed == { list[i] : i \in 1 .. Len(list) }
        first == { ranked0[i] : i \in 1 .. Len(ranked0) }
    IN  /\ \A a \in feed : Score(a) <= THRESHOLD_TENTHS => a \notin listed
        /\ \A a \in feed :
             (Score(a) > THRESHOLD_TENTHS /\ ~is_duplicate(TrackerAtFetch, a)) => a \in listed
        /\ \A i, j \in 1 .. Len(list) :
             i < j =>
               \/ Score(list[i]) > Score(list[j])
               \/ /\ Score(list[i]) = Score(list[j])
                  /\ ArticleTable[list[i]].published >= ArticleTable[list[j]].published
        /\ \E i \in 1 .. Min2(CANDIDATE_LIMIT, Len(list)) :
             /\ list[i] = article
             /\ \A j \in 1 .. i - 1 : is_duplicate(TrackerAtFetch, list[j])
        /\ Len(ranked0) <= CANDIDATE_LIMIT
        /\ article \in first =>
             \A b \in first :
               PlaceIn(ranked0, b) < PlaceIn(ranked0, article) =>
                 RejectedInCycle(b) \/ is_duplicate(TrackerAtFetch, b)

C19_Witness ==
  /\ pc = "similarity"
  /\ Len(verdicts) >= 1
  /\ Len(ranked0) = CANDIDATE_LIMIT
  /\ article \in { ranked0[i] : i \in 2 .. Len(ranked0) }
  /\ \E a \in feed : Score(a) <= THRESHOLD_TENTHS
  /\ \E i \in 1 .. Len(stats.fetched) - 1 :
       Score(stats.fetched[i]) = Score(stats.fetched[i + 1])

\* --------------------------------------------------- cycle: termination
Running == pc \in {"attempt", "similarity", "relevance", "analysis"}

(* C20: every selection cycle ends, after at most 5 attempts, either      *)
(* Accepted (a result is returned) or Exhausted (no result), and has made *)
(* at most 5 similarity calls and at most 5 relevance calls, every        *)
(* awaited call returning.                                                *)
C20_CycleTerminates ==
  /\ [](/\ attempt <= MAX_ATTEMPTS
        /\ stats.fetches <= MAX_ATTEMPTS
        /\ stats.simCalls <= MAX_ATTEMPTS
        /\ stats.relCalls <= MAX_ATTEMPTS)
  /\ [](pc = "done" =>
          \/ /\ result # NoArticle
             /\ result = article
             /\ verdicts[Len(verdicts)].outcome = "accepted"
          \/ /\ result = NoArticle
             /\ attempt = MAX_ATTEMPTS
             /\ \A i \in 1 .. Len(verdicts) : verdicts[i].outcome # "accepted")
  /\ (Running ~> pc = "done")

C20_Witness ==
  /\ pc = "done"
  /\ result = NoArticle
  /\ stats.fetches = MAX_ATTEMPTS
  /\ stats.simCalls = MAX_ATTEMPTS
  /\ stats.relCalls >= 1

\* ------------------------------------------------------- cycle: fetches
(* C21: within one selection cycle the feeds are fetched a single time,   *)
(* at the start of the cycle; rejecting a candidate advances to the next  *)
(* one without fetching any feed again.                                   *)
C21_FetchedOncePerCycle ==
  stats.fetches <= 1

\* ------------------------------------------- cycle: titles for similarity
(* The records whose titles check_similarity_to_recent_news hands to the  *)
(* collaborator when it runs in this state.                               *)
SuppliedRecords == recent_titles(posted_articles)

RejectedHashes == { get_article_hash(a) : a \in { b \in Articles : RejectedInCycle(b) } }

(* C22: the titles supplied to the similarity collaborator for a          *)
(* candidate are those of the up to 15 most recent records of the store   *)
(* that are not flagged duplicate or rejected, and no title of a record   *)
(* rejected earlier is among them.                                        *)
C22_SimilarityTitles ==
  pc = "similarity" =>
    LET eligible == { h \in DOMAIN posted_articles :
                        ~posted_articles[h].is_duplicate /\ h \notin RejectedHashes }
    IN  /\ Len(SuppliedRecords) = Min2(SIMILARITY_WINDOW, Cardinality(eligible))
        /\ \A i \in 1 .. Len(SuppliedRecords) : SuppliedRecords[i].hash \notin RejectedHashes

\* ------------------------------------------------- cycle: relevance verdict
LastVerdict == verdicts[Len(verdicts)]

Holds(str, token) == \E i \in 1 .. Len(str) : str[i] = token

(* C23: a candidate passes the relevance check iff the integer score the  *)
(* collaborator gave is at least 5; with a score below 5 it is recorded   *)
(* as rejected, with a reason holding the score and the collaborator's    *)
(* reason, and the cycle advances to the next candidate without accepting *)
(* it.                                                                    *)
C23_RelevanceThreshold ==
  (check.kind = "relevance" /\ pc \in {"attempt", "analysis"}) =>
    /\ LastVerdict.relSays = "relevant" =>
         /\ check.score >= RELEVANT_MIN_SCORE
         /\ check.verdict
         /\ pc = "analysis"
         /\ LastVerdict.outcome = "accepted"
    /\ LastVerdict.relSays = "low" =>
         /\ check.score < RELEVANT_MIN_SCORE
         /\ ~check.verdict
         /\ pc = "attempt"
         /\ attempt = Len(verdicts)
         /\ result = NoArticle
         /\ LastVerdict.outcome = "low relevance"
         /\ LET h == get_article_hash(LastVerdict.article)
            IN  /\ h \in DOMAIN file.posted_articles
                /\ file.posted_articles[h].is_duplicate
                /\ Holds(file.posted_articles[h].similarity_reason, ToString(check.score))
                /\ Holds(file.posted_articles[h].similarity_reason, "weak")

C23_Witness ==
  /\ check.kind = "relevance"
  /\ pc = "attempt"
  /\ LastVerdict.relSays = "low"
  /\ check.score = RELEVANT_MIN_SCORE - 1
  /\ file.posted_articles[get_article_hash(LastVerdict.article)].is_duplicate

\* ----------------------------------------------------- scorer: frame
(* C24: calculate_relevance_score leaves the entry it is given unchanged  *)
(* (no field is added or modified).                                       *)
C24_ScorerLeavesEntryUnchanged ==
  scoring.scored => scoring.article.category = NoCategory

\* ------------------------------------------------ load: unparseable records
(* C25: on load a record whose posted_at is missing or cannot be parsed   *)
(* is purged iff the store holds more than 1000 records at that load;     *)
(* with 1000 or fewer records every such record is kept.                  *)
C25_UnparseableKeptUnderCap ==
  (lastLoad.fresh /\ lastLoad.cleaned) =>
    \A h \in DOMAIN lastLoad.src :
      ~IsParseable(lastLoad.src[h].posted_at) =>
        (h \in DOMAIN posted_articles <=>
           Cardinality(DOMAIN lastLoad.src) <= UNPARSEABLE_CAP)

\* ------------------------------------------------------ store: aggregates
(* C26: in every snapshot of get_tracker_stats total_tracked is the       *)
(* number of records and the per-source counts and the per-category       *)
(* counts each sum to it; after every write the total_tracked of the file *)
(* is the number of records in the file; and the step that computes a     *)
(* snapshot (the similarity check) changes no record.                     *)
C26_AggregatesAgree ==
  /\ [](LET snapshot == get_tracker_stats(posted_articles)
        IN  /\ snapshot.total_tracked = Cardinality(DOMAIN posted_articles)
            /\ SumOver(snapshot.sources, DOMAIN snapshot.sources) = snapshot.total_tracked
            /\ SumOver(snapshot.categories, DOMAIN snapshot.categories)
                 = snapshot.total_tracked)
  /\ []((lastWrite.op # "none" /\ ~lastWrite.failed) =>
          /\ file.exists
          /\ file.total_tracked = Cardinality(DOMAIN file.posted_articles))
  /\ [][pc = "similarity" => posted_articles' = posted_articles]_vars

C26_Witness ==
  /\ lastWrite.op = "flag_article_as_duplicate"
  /\ check.kind = "similarity"
  /\ file.total_tracked >= 3
  /\ Cardinality(DOMAIN posted_articles) >= 3
  /\ \E s \in DOMAIN get_tracker_stats(posted_articles).sources :
       get_tracker_stats(posted_articles).sources[s] >= 2
  /\ Cardinality(DOMAIN get_tracker_stats(posted_articles).categories) >= 2

\* ------------------------------------------------- store: posting and sending
(* C27: an article is in the store as a posted record only if its message *)
(* was sent to the channel: when the cycle fails after the selection (the *)
(* send of the message raises), the approved article is not left in the   *)
(* tracker nor in the file as a posted record, so a later cycle can       *)
(* choose it again.                                                       *)
C27_RecordedOnlyIfSent ==
  pc = "send failed" =>
    /\ ~is_duplicate(posted_articles, result)
    /\ file.exists => get_article_hash(result) \notin DOMAIN file.posted_articles

\* ------------------------------------------------ concurrent tasks: selection
(* The tasks that hold the article their last get_single_relevant_article *)
(* returned in the running cycle.                                         *)
Holding == { t \in Tasks : tasks[t].article # NoArticle }

(* C28: with cycles interleaved at their await points, no fingerprint is  *)
(* returned by two invocations of get_single_relevant_article: an         *)
(* invocation returns an article only when the tracker does not hold its  *)
(* fingerprint, the tracker holds it in the very step of the return, no   *)
(* step of any task takes a fingerprint out of the tracker, and no step   *)
(* leaves two tasks holding articles of one fingerprint.                  *)
C28_NoFingerprintReturnedTwice ==
  /\ [][\A t \in Tasks :
          (tasks[t].pc = "extract" /\ tasks'[t].pc = "similarity") =>
            /\ ~is_duplicate(posted_articles, tasks'[t].article)
            /\ is_duplicate(posted_articles', tasks'[t].article)]_vars
  /\ [][DOMAIN posted_articles \subseteq DOMAIN posted_articles']_vars
  /\ [][\A t \in Holding', u \in Holding' :
          t # u => get_article_hash(tasks'[t].article) # get_article_hash(tasks'[u].article)]_vars

(* Two tasks fetched the same list while neither had selected, and each   *)
(* has been given its own article.                                        *)
C28_Witness ==
  \E t \in Holding, u \in Holding :
    /\ t # u
    /\ tasks[t].articles # << >>
    /\ tasks[t].articles = tasks[u].articles
    /\ tasks[t].article = tasks[t].articles[1]
    /\ tasks[u].article # tasks[t].article

\* --------------------------------------------- similarity: the candidate itself
(* C29: when the similarity check runs for a candidate, the candidate's   *)
(* own record is not among the recent records whose titles it is compared *)
(* with.                                                                  *)
C29_NotComparedWithItself ==
  (pc = "similarity" /\ article # NoArticle) =>
    \A i \in 1 .. Len(SuppliedRecords) :
      SuppliedRecords[i].hash # get_article_hash(article)

\* ------------------------------------------------- scorer: the threshold
(* The categories of which the entry matches a keyword. *)
MatchedCategories(entry) == { p[1] : p \in TopicMatches(entry) }

(* C30: no entry scores exactly the threshold 1.5.  A score is 0 (an      *)
(* excluded entry, or no keyword matched), a positive integer (one        *)
(* category matched), or 1.5 times an integer of at least 2 (several      *)
(* categories matched), capped at 15.0; so the entries fetch_all_feeds    *)
(* keeps with score >= 1.5 are exactly those with score > 1.5.            *)
C30_NeverExactlyThreshold ==
  scoring.scored =>
    LET score == scoring.relevance_score
        categories == IF HoldsExclusionPhrase(scoring.article) THEN 0
                      ELSE Cardinality(MatchedCategories(scoring.article))
    IN  /\ score # THRESHOLD_TENTHS
        /\ score \in 0 .. SCORE_CAP_TENTHS
        /\ categories = 0 => score = 0
        /\ categories = 1 => score >= SUMMARY_WEIGHT_TENTHS /\ score % SUMMARY_WEIGHT_TENTHS = 0
        /\ categories >= 2 =>
             \/ score = SCORE_CAP_TENTHS
             \/ score >= 2 * THRESHOLD_TENTHS /\ score % THRESHOLD_TENTHS = 0
        /\ scoring.kept <=> score > THRESHOLD_TENTHS

(* An entry just above the threshold: one keyword of each of two          *)
(* categories, found in the summary only, scores 3.0 and is kept.         *)
C30_Witness ==
  /\ scoring.scored
  /\ ~HoldsExclusionPhrase(scoring.article)
  /\ Cardinality(MatchedCategories(scoring.article)) >= 2
  /\ scoring.relevance_score = 2 * THRESHOLD_TENTHS
  /\ scoring.kept

====
